---- MODULE Spec2Model ----
(***************************************************************************)
(* State-machine model of libpostal-rs: the Initialization Gate            *)
(* (ffi::initialize), the Native Call Adapter (ffi::parse_address,         *)
(* ffi::normalize_string), the Data Lifecycle Manager (data::DataManager)  *)
(* and LibPostal::with_config.                                             *)
(***************************************************************************)
EXTENDS Integers, Sequences, FiniteSets, TLC

\* ------------------------------------------------------------------------
\* Bounds of the model
\* ------------------------------------------------------------------------
NumThreads == 2

MaxCalls == 2

MaxFsChanges == 2

MaxDefects == 1

MaxStrLen == 2

MaxHintLen == 1

MaxComponents == 2

Threads == 1..NumThreads

\* ------------------------------------------------------------------------
\* The filesystem: data directories and the required data files
\* ------------------------------------------------------------------------
\* DataManager::new() uses default_data_dir(); a configuration may name another
Dirs == {"default_dir", "custom_dir"}

DefaultDir == "default_dir"

\* data.rs:54-63 (the same list is repeated in verify_data, data.rs:119-128)
required_files ==
    << "address_expansions/address_dictionary.dat",
       "numex/numex.dat",
       "transliteration/transliteration.dat",
       "address_parser/address_parser_crf.dat",
       "address_parser/address_parser_phrases.dat",
       "address_parser/address_parser_postal_codes.dat",
       "address_parser/address_parser_vocab.trie",
       "language_classifier/language_classifier.dat" >>

RequiredFileSet == {required_files[i] : i \in 1..Len(required_files)}

\* a path is absent, an empty file (len 0) or a file with data (len > 0)
FileStates == {"absent", "empty", "data"}

NoFiles == [f \in RequiredFileSet |-> "absent"]

AllFiles == [f \in RequiredFileSet |-> "data"]

NoDir == [exists |-> FALSE, files |-> NoFiles]

EmptyDir == [exists |-> TRUE, files |-> NoFiles]

FullDir == [exists |-> TRUE, files |-> AllFiles]

\* Path::exists() of data_dir.join(file)
PathExists(d, file) == d.exists /\ d.files[file] # "absent"

\* fs::metadata(path).len() == 0
FileIsEmpty(d, file) == d.files[file] = "empty"

\* the file contents within MaxDefects defects of a complete installation
DirContents ==
    {fl \in [RequiredFileSet -> FileStates] :
        Cardinality({f \in RequiredFileSet : fl[f] # "data"}) <= MaxDefects}

DirStates == {NoDir, EmptyDir} \cup {[exists |-> TRUE, files |-> fl] : fl \in DirContents}

\* ------------------------------------------------------------------------
\* DataManager::is_data_available (data.rs:48-72)
\* ------------------------------------------------------------------------
IsDataAvailableNonEmpty(d) ==
    /\ d.exists
    /\ \A i \in 1..Len(required_files) :
          PathExists(d, required_files[i]) /\ ~FileIsEmpty(d, required_files[i])

is_data_available(d) ==
    IF ~d.exists
      THEN FALSE
      ELSE \A i \in 1..Len(required_files) : PathExists(d, required_files[i])

\* ------------------------------------------------------------------------
\* Variables
\* ------------------------------------------------------------------------
VARIABLES
    fs,             \* [Dirs -> directory state]
    fsChanges,      \* number of changes made to the filesystem from outside
    INIT,           \* the Once: "incomplete", "running" or "complete"
    INITIALIZED,    \* static mut INITIALIZED
    INIT_ERROR_MSG, \* static mut INIT_ERROR_MSG (the bytes written)
    INIT_ERROR_LEN, \* static mut INIT_ERROR_LEN
    nativeCalls,    \* number of calls of each native setup or teardown function
    setupRuns,      \* number of executions of the call_once closure
    pc,             \* position of each thread
    op,             \* the operation each thread is executing
    callsLeft,      \* calls each thread may still start
    lcl,            \* locals of the call_once closure, per thread
    ret,            \* the value returned by the thread's last call
    waited,         \* threads that found the Once running and had to wait
    outcomes,       \* every value ffi::initialize has returned so far
    callLog,        \* native functions invoked during the thread's current call
    changedAfterInit, \* the filesystem was changed after the Once completed
    arg,            \* the arguments of the thread's current call
    ad,             \* locals of parse_address / normalize_string, per thread
    dm,             \* the DataManager: its data_dir and DataConfig
    dataRes,        \* results of the DataManager's last calls
    config,         \* the LibPostalConfig given to LibPostal::with_config
    call,           \* a call of a function without side effects: input and output
    profiler,       \* the PerformanceProfiler: its three atomic counters
    recorded        \* the record and reset calls made on the profiler so far

fsVars == <<fs, fsChanges, changedAfterInit>>

gateVars == <<INIT, INITIALIZED, INIT_ERROR_MSG, INIT_ERROR_LEN, nativeCalls, setupRuns>>

threadVars == <<pc, op, callsLeft, lcl, ret, waited, outcomes, callLog>>

adapterVars == <<arg, ad>>

dataVars == <<dm, dataRes>>

cfgVars == <<config>>

pureVars == <<call>>

profVars == <<profiler, recorded>>

vars == <<fsVars, gateVars, threadVars, adapterVars, dataVars, cfgVars, pureVars, profVars>>

\* ------------------------------------------------------------------------
\* The Initialization Gate: ffi::initialize (ffi.rs:112-184)
\* ------------------------------------------------------------------------
SetupDatadirFns ==
    << "libpostal_setup_datadir",
       "libpostal_setup_parser_datadir",
       "libpostal_setup_language_classifier_datadir" >>

SetupDefaultFns ==
    << "libpostal_setup",
       "libpostal_setup_parser",
       "libpostal_setup_language_classifier" >>

SetupFns == {SetupDatadirFns[i] : i \in 1..3} \cup {SetupDefaultFns[i] : i \in 1..3}

\* ffi.rs:212-214: the native teardown functions, in the order of the calls
TeardownFns ==
    << "libpostal_teardown",
       "libpostal_teardown_parser",
       "libpostal_teardown_language_classifier" >>

NativeFns == SetupFns \cup {TeardownFns[i] : i \in 1..3}

MsgDataNotFound ==
    "libpostal initialization failed - data files not found. Run data download first."

MsgInitFailed == "libpostal initialization failed"

MsgInvalidPath == "Invalid data directory path"

\* msg.len() of the three messages
MsgLen(msg) ==
    CASE msg = MsgDataNotFound -> 80
      [] msg = MsgInitFailed -> 31
      [] msg = MsgInvalidPath -> 27

\* the size of INIT_ERROR_MSG is 256; at most 255 bytes are copied
MaxErrorLen == 255

Min(a, b) == IF a <= b THEN a ELSE b

\* INIT_ERROR_MSG[..INIT_ERROR_LEN].copy_from_slice(&msg[..INIT_ERROR_LEN])
CopyMsg(msg) ==
    IF MsgLen(msg) <= MaxErrorLen THEN msg ELSE <<"prefix", MaxErrorLen, msg>>

\* CString::new(data_dir) fails on an interior NUL; the path of a directory
\* that exists on disk has none
PathHasNul(dir) == FALSE

OkResult == [kind |-> "Ok"]

Err(kind, message) == [kind |-> kind, message |-> message]

NoRet == [kind |-> "none"]

\* ffi.rs:171-183: the value initialize returns from the stored state
StoredOutcome ==
    IF INITIALIZED
      THEN OkResult
      ELSE Err("InitializationFailed",
               IF INIT_ERROR_LEN > 0 THEN INIT_ERROR_MSG ELSE MsgInitFailed)

\* std::sync::Once::call_once runs the closure only for the caller that finds
\* the Once incomplete
OnceEntersWhileRunning(state) == state # "complete"

OnceEntersAgain(state) == state # "running"

OnceMayEnter(state) == state = "incomplete"

NoArg == [input |-> <<>>, options |-> [some |-> FALSE], facade |-> FALSE]

\* the buffers of the CStrings ("none", "alive" or "freed"), the pointers in the
\* native options struct, the native result and the conversion loop
NoAd ==
    [c_input |-> "none", language |-> "none", country |-> "none",
     opt_language |-> FALSE, opt_country |-> FALSE,
     res |-> "none", entries |-> <<>>, i |-> 0, results |-> <<>>,
     destroys |-> 0, badRead |-> FALSE]

NoManager == [data_dir |-> DefaultDir, auto_download |-> TRUE, verify_integrity |-> TRUE]

\* the answers of the DataManager's calls since the directory last changed
NoDataRes ==
    [availCalled |-> FALSE, avail |-> FALSE, verify |-> NoRet, ioFail |-> "",
     ensure |-> NoRet, attempts |-> <<>>, availBefore |-> FALSE, fsChanged |-> FALSE,
     tried |-> <<>>, delivered |-> NoFiles,
     second |-> NoRet, secondAttempts |-> <<>>, presentBetween |-> FALSE,
     secondChanged |-> FALSE, verified |-> NoRet]

NoConfig ==
    [auto_download_data |-> TRUE, verify_data_integrity |-> TRUE,
     data_config |-> NoManager, runtime_data |-> TRUE]

\* the locals of the closure: the directory of its DataManager, the answer
\* of is_data_available, what the native setup calls were given and returned
NoLocals ==
    [avail |-> FALSE, success |-> FALSE, invalid |-> FALSE, late |-> FALSE,
     dir |-> "none", setupDir |-> "none", results |-> <<>>]

GateInit ==
    /\ INIT = "incomplete"
    /\ INITIALIZED = FALSE
    /\ INIT_ERROR_MSG = ""
    /\ INIT_ERROR_LEN = 0
    /\ nativeCalls = [f \in NativeFns |-> 0]
    /\ setupRuns = 0

ThreadInit(budget) ==
    /\ pc = [t \in Threads |-> "idle"]
    /\ op = [t \in Threads |-> "none"]
    /\ callsLeft = budget
    /\ lcl = [t \in Threads |-> NoLocals]
    /\ ret = [t \in Threads |-> NoRet]
    /\ waited = {}
    /\ outcomes = {}
    /\ callLog = [t \in Threads |-> {}]

AdapterIdle ==
    /\ arg = [t \in Threads |-> NoArg]
    /\ ad = [t \in Threads |-> NoAd]

DataIdle ==
    /\ dm = NoManager
    /\ dataRes = NoDataRes

ConfigIdle == config = NoConfig

NoCall == [fn |-> "none"]

PureIdle == call = NoCall

\* PerformanceProfiler::new (profiling.rs:115-122)
NewProfiler == [operation_count |-> 0, total_parse_time |-> 0, total_normalize_time |-> 0]

NothingRecorded == [parses |-> 0, normalizes |-> 0, parse_us |-> 0, normalize_us |-> 0,
                    resets |-> 0]

ProfilerIdle ==
    /\ profiler = NewProfiler
    /\ recorded = NothingRecorded

\* a caller arrives at INIT.call_once and finds the Once incomplete
OnceEnter(t) ==
    /\ pc[t] \in {"call_once", "blocked"}
    /\ OnceMayEnter(INIT)
    /\ INIT' = "running"
    /\ setupRuns' = setupRuns + 1
    /\ pc' = [pc EXCEPT ![t] = "init_check"]
    /\ UNCHANGED <<fsVars, INITIALIZED, INIT_ERROR_MSG, INIT_ERROR_LEN, nativeCalls>>
    /\ UNCHANGED <<op, callsLeft, lcl, ret, waited, outcomes, callLog>>
    /\ UNCHANGED <<adapterVars, dataVars, cfgVars, pureVars, profVars>>

\* a caller arrives while another thread runs the closure: it waits
OnceBlock(t) ==
    /\ pc[t] = "call_once"
    /\ INIT = "running"
    /\ ~OnceMayEnter(INIT)
    /\ pc' = [pc EXCEPT ![t] = "blocked"]
    /\ waited' = waited \cup {t}
    /\ UNCHANGED <<fsVars, gateVars>>
    /\ UNCHANGED <<op, callsLeft, lcl, ret, outcomes, callLog>>
    /\ UNCHANGED <<adapterVars, dataVars, cfgVars, pureVars, profVars>>

\* the Once is complete: call_once returns without running the closure
OncePass(t) ==
    /\ pc[t] \in {"call_once", "blocked"}
    /\ INIT = "complete"
    /\ ~OnceMayEnter(INIT)
    /\ pc' = [pc EXCEPT ![t] = "init_read"]
    /\ UNCHANGED <<fsVars, gateVars>>
    /\ UNCHANGED <<op, callsLeft, lcl, ret, waited, outcomes, callLog>>
    /\ UNCHANGED <<adapterVars, dataVars, cfgVars, pureVars, profVars>>

\* ffi.rs:115-116: DataManager::new().is_data_available()
InitCheckData(t) ==
    /\ pc[t] = "init_check"
    /\ lcl' = [lcl EXCEPT ![t].avail = is_data_available(fs[DefaultDir]),
                           ![t].dir = DefaultDir]
    /\ pc' = [pc EXCEPT ![t] = "init_setup"]
    /\ UNCHANGED <<fsVars, gateVars>>
    /\ UNCHANGED <<op, callsLeft, ret, waited, outcomes, callLog>>
    /\ UNCHANGED <<adapterVars, dataVars, cfgVars, pureVars, profVars>>

\* ffi.rs:116-147: with a data directory when the data is available, the
\* library-default setup otherwise
SetupFnsFor(avail) == IF avail THEN SetupDatadirFns ELSE SetupDefaultFns

CountCalls(fns) == [f \in NativeFns |->
    IF \E i \in 1..3 : fns[i] = f THEN nativeCalls[f] + 1 ELSE nativeCalls[f]]

\* the library-default setup calls take no directory
LibraryDefault == "library default"

\* ffi.rs:128 and ffi.rs:146: setup_result && parser_result && classifier_result
SetupWithoutClassifier(r1, r2, r3) == r1 /\ r2

AllSetupSucceeded(r1, r2, r3) == r1 /\ r2 /\ r3

\* ffi.rs:116-148: the three native setup calls; each is made whatever the
\* others returned, and the native library decides each result
InitNativeSetup(t) ==
    /\ pc[t] = "init_setup"
    /\ IF lcl[t].avail /\ PathHasNul(DefaultDir)
         THEN /\ INIT_ERROR_LEN' = Min(MsgLen(MsgInvalidPath), MaxErrorLen)
              /\ INIT_ERROR_MSG' = CopyMsg(MsgInvalidPath)
              /\ lcl' = [lcl EXCEPT ![t].success = FALSE, ![t].invalid = TRUE]
              /\ UNCHANGED <<nativeCalls, callLog>>
         ELSE /\ \E r1, r2, r3 \in BOOLEAN :
                    lcl' = [lcl EXCEPT ![t].success = AllSetupSucceeded(r1, r2, r3),
                                       ![t].results = <<r1, r2, r3>>,
                                       ![t].setupDir = IF lcl[t].avail THEN lcl[t].dir
                                                                       ELSE LibraryDefault]
              /\ nativeCalls' = CountCalls(SetupFnsFor(lcl[t].avail))
              /\ callLog' = [callLog EXCEPT ![t] =
                      @ \cup {SetupFnsFor(lcl[t].avail)[i] : i \in 1..3}]
              /\ UNCHANGED <<INIT_ERROR_LEN, INIT_ERROR_MSG>>
    /\ pc' = [pc EXCEPT ![t] = "init_store"]
    /\ UNCHANGED <<fsVars, INIT, INITIALIZED, setupRuns>>
    /\ UNCHANGED <<op, callsLeft, ret, waited, outcomes>>
    /\ UNCHANGED <<adapterVars, dataVars, cfgVars, pureVars, profVars>>

\* ffi.rs:155-159: the message is chosen by a second is_data_available()
FailureMessage(d) == IF ~is_data_available(d) THEN MsgDataNotFound ELSE MsgInitFailed

\* ffi.rs:150-168 and the end of the closure, which completes the Once
InitStore(t) ==
    /\ pc[t] = "init_store"
    /\ IF lcl[t].success
         THEN /\ INITIALIZED' = TRUE
              /\ UNCHANGED <<INIT_ERROR_MSG, INIT_ERROR_LEN>>
         ELSE /\ INITIALIZED' = FALSE
              /\ IF INIT_ERROR_LEN = 0
                   THEN /\ INIT_ERROR_LEN' =
                             Min(MsgLen(FailureMessage(fs[DefaultDir])), MaxErrorLen)
                        /\ INIT_ERROR_MSG' = CopyMsg(FailureMessage(fs[DefaultDir]))
                   ELSE UNCHANGED <<INIT_ERROR_MSG, INIT_ERROR_LEN>>
    /\ INIT' = "complete"
    /\ pc' = [pc EXCEPT ![t] = "init_read"]
    /\ UNCHANGED <<fsVars, nativeCalls, setupRuns>>
    /\ UNCHANGED <<op, callsLeft, lcl, ret, waited, outcomes, callLog>>
    /\ UNCHANGED <<adapterVars, dataVars, cfgVars, pureVars, profVars>>

\* ffi.rs:171-183 for a direct call of ffi::initialize
InitReturn(t) ==
    /\ pc[t] = "init_read"
    /\ op[t] = "initialize"
    /\ ret' = [ret EXCEPT ![t] = StoredOutcome]
    /\ outcomes' = outcomes \cup {StoredOutcome}
    /\ pc' = [pc EXCEPT ![t] = "done"]
    /\ UNCHANGED <<fsVars, gateVars>>
    /\ UNCHANGED <<op, callsLeft, lcl, waited, callLog>>
    /\ UNCHANGED <<adapterVars, dataVars, cfgVars, pureVars, profVars>>

\* a thread calls ffi::initialize()
StartInitialize(t) ==
    /\ pc[t] \in {"idle", "done"}
    /\ callsLeft[t] > 0
    /\ callsLeft' = [callsLeft EXCEPT ![t] = @ - 1]
    /\ op' = [op EXCEPT ![t] = "initialize"]
    /\ pc' = [pc EXCEPT ![t] = "call_once"]
    /\ ret' = [ret EXCEPT ![t] = NoRet]
    /\ callLog' = [callLog EXCEPT ![t] = {}]
    /\ lcl' = [lcl EXCEPT ![t] =
            [NoLocals EXCEPT !.late = (INIT = "complete" /\ changedAfterInit)]]
    /\ UNCHANGED <<fsVars, gateVars>>
    /\ UNCHANGED <<waited, outcomes>>
    /\ UNCHANGED <<adapterVars, dataVars, cfgVars, pureVars, profVars>>

GateStep(t) ==
    \/ OnceEnter(t)
    \/ OnceBlock(t)
    \/ OncePass(t)
    \/ InitCheckData(t)
    \/ InitNativeSetup(t)
    \/ InitStore(t)

\* ------------------------------------------------------------------------
\* The Native Call Adapter: ffi::parse_address (ffi.rs:269-323) and
\* ffi::normalize_string (ffi.rs:377-421)
\* ------------------------------------------------------------------------
\* strings are byte sequences; 0 is the NUL byte
Bytes == {0, 97}

Strs(n) == UNION {[1..k -> Bytes] : k \in 0..n}

HasNul(s) == \E i \in 1..Len(s) : s[i] = 0

\* CString::new(s): an error on an interior NUL byte, else the bytes followed
\* by the terminating NUL
CStringNewUnchecked(s) == [ok |-> TRUE, bytes |-> Append(s, 0)]

CStringNew(s) ==
    IF HasNul(s) THEN [ok |-> FALSE, bytes |-> <<>>]
                 ELSE [ok |-> TRUE, bytes |-> Append(s, 0)]

None == [some |-> FALSE]

Some(v) == [some |-> TRUE, v |-> v]

\* ParseOptions (ffi.rs:590-604)
Hints == {None} \cup {Some(s) : s \in Strs(MaxHintLen)}

ParseOptions == [language : Hints, country : Hints]

\* what the native library hands back: null pointers and C strings, some of
\* them not valid UTF-8
NullPtr == "NULL"

InvalidUtf8 == "bytes that are not UTF-8"

\* CStr::from_ptr(p).to_string_lossy().into_owned()
ToStringLossy(c) == IF c = InvalidUtf8 THEN "U+FFFD" ELSE c

ParseEntries ==
    { [component |-> "123", label |-> "house_number"],
      [component |-> NullPtr, label |-> "road"],
      [component |-> "main st", label |-> NullPtr],
      [component |-> InvalidUtf8, label |-> "road"] }

ExpandEntries == {"main street", NullPtr, InvalidUtf8}

NativeResults(E) ==
    {[null |-> TRUE, entries |-> <<>>]} \cup
    {[null |-> FALSE, entries |-> e] : e \in UNION {[1..k -> E] : k \in 0..MaxComponents}}

AdapterOps == {"parse_address", "normalize_string"}

OptionFns == {"libpostal_get_address_parser_default_options", "libpostal_get_default_options"}

WorkFns == {"libpostal_parse_address", "libpostal_expand_address"}

DestroyFns == {"libpostal_address_parser_response_destroy", "libpostal_expansion_array_destroy"}

OkValue(v) == [kind |-> "Ok", value |-> v]

\* AddressNormalizer::normalize (normalizer.rs:116-122) wraps the expansions;
\* an error passes through the ? operator
FacadeWrap(a, r) ==
    IF a.facade /\ r.kind = "Ok"
      THEN OkValue([original |-> a.input, expansions |-> r.value])
      ELSE r

\* dropping a CString releases its buffer
Drop(buf) == IF buf = "alive" THEN "freed" ELSE buf

\* every local buffer is dropped when the function returns
DropAll(a) == [a EXCEPT !.c_input = Drop(@), !.language = Drop(@), !.country = Drop(@)]

\* the function returns r: ret, pc, and the locals go out of scope
Finish(t, r, a) ==
    /\ ret' = [ret EXCEPT ![t] = FacadeWrap(arg[t], r)]
    /\ ad' = [ad EXCEPT ![t] = DropAll(a)]
    /\ pc' = [pc EXCEPT ![t] = "done"]

StartCall(t, name, a) ==
    /\ pc[t] \in {"idle", "done"}
    /\ callsLeft[t] > 0
    /\ callsLeft' = [callsLeft EXCEPT ![t] = @ - 1]
    /\ op' = [op EXCEPT ![t] = name]
    /\ arg' = [arg EXCEPT ![t] = a]
    /\ ad' = [ad EXCEPT ![t] = NoAd]
    /\ pc' = [pc EXCEPT ![t] = "call_once"]
    /\ ret' = [ret EXCEPT ![t] = NoRet]
    /\ callLog' = [callLog EXCEPT ![t] = {}]
    /\ lcl' = [lcl EXCEPT ![t] = NoLocals]
    /\ UNCHANGED <<fsVars, gateVars, waited, outcomes, dataVars, cfgVars, pureVars, profVars>>

\* a caller calls ffi::parse_address(address, options)
StartParse(t) ==
    \E s \in Strs(MaxStrLen), o \in {None} \cup {Some(po) : po \in ParseOptions} :
        StartCall(t, "parse_address", [input |-> s, options |-> o, facade |-> FALSE])

\* a caller calls ffi::normalize_string(input, options), directly or through
\* AddressNormalizer::normalize, which always passes Some(&self.options)
StartNormalize(t) ==
    \E s \in Strs(MaxStrLen), o \in {None, Some("NormalizeOptions")}, fac \in BOOLEAN :
        /\ fac => o.some
        /\ StartCall(t, "normalize_string", [input |-> s, options |-> o, facade |-> fac])

\* ffi.rs:274 and ffi.rs:382: initialize()?
AdapterInitResult(t) ==
    /\ pc[t] = "init_read"
    /\ op[t] \in AdapterOps
    /\ IF StoredOutcome.kind # "Ok"
         THEN Finish(t, StoredOutcome, ad[t])
         ELSE /\ pc' = [pc EXCEPT ![t] = "cstring"]
              /\ UNCHANGED <<ret, ad>>
    /\ UNCHANGED <<fsVars, gateVars, op, callsLeft, lcl, waited, outcomes, callLog>>
    /\ UNCHANGED <<arg, dataVars, cfgVars, pureVars, profVars>>

InputErrorMessage(name) ==
    IF name = "parse_address" THEN "Invalid address string" ELSE "Invalid input string"

\* ffi.rs:276-277 and ffi.rs:384: CString::new(input).map_err(..)?
AdapterCString(t) ==
    /\ pc[t] = "cstring"
    /\ IF ~CStringNew(arg[t].input).ok
         THEN Finish(t, Err("FfiError", InputErrorMessage(op[t])), ad[t])
         ELSE /\ ad' = [ad EXCEPT ![t].c_input = "alive"]
              /\ pc' = [pc EXCEPT ![t] = "options"]
              /\ UNCHANGED ret
    /\ UNCHANGED <<fsVars, gateVars, op, callsLeft, lcl, waited, outcomes, callLog>>
    /\ UNCHANGED <<arg, dataVars, cfgVars, pureVars, profVars>>

\* convert_parse_options (ffi.rs:453-477): the buffers of the hints are put
\* into the caller's holders and their pointers into the options struct
convert_parse_options(po, a) ==
    IF po.language.some /\ ~CStringNew(po.language.v).ok
      THEN [ok |-> FALSE, err |-> Err("FfiError", "Invalid language string"), a |-> a]
      ELSE LET a1 == IF po.language.some
                       THEN [a EXCEPT !.language = "alive", !.opt_language = TRUE]
                       ELSE a
           IN  IF po.country.some /\ ~CStringNew(po.country.v).ok
                 THEN [ok |-> FALSE, err |-> Err("FfiError", "Invalid country string"),
                       a |-> a1]
                 ELSE [ok |-> TRUE, err |-> OkResult,
                       a |-> IF po.country.some
                               THEN [a1 EXCEPT !.country = "alive", !.opt_country = TRUE]
                               ELSE a1]

\* ffi.rs:281-287: the options struct of parse_address
ParseOptionsStep(t) ==
    /\ pc[t] = "options"
    /\ op[t] = "parse_address"
    /\ callLog' = [callLog EXCEPT ![t] = @ \cup {"libpostal_get_address_parser_default_options"}]
    /\ IF arg[t].options.some
         THEN LET c == convert_parse_options(arg[t].options.v, ad[t])
              IN  IF c.ok
                    THEN /\ ad' = [ad EXCEPT ![t] = c.a]
                         /\ pc' = [pc EXCEPT ![t] = "block_end"]
                         /\ UNCHANGED ret
                    ELSE Finish(t, c.err, c.a)
         ELSE /\ pc' = [pc EXCEPT ![t] = "native_call"]
              /\ UNCHANGED <<ret, ad>>
    /\ UNCHANGED <<fsVars, gateVars, op, callsLeft, lcl, waited, outcomes>>
    /\ UNCHANGED <<arg, dataVars, cfgVars, pureVars, profVars>>

\* ffi.rs:282-285: language_holder and country_holder are locals of the
\* `if let` block and are dropped where it ends, before the native call
HoldersAtBlockEnd(a) == [a EXCEPT !.language = Drop(@), !.country = Drop(@)]

HolderScopeEnd(t) ==
    /\ pc[t] = "block_end"
    /\ ad' = [ad EXCEPT ![t] = HoldersAtBlockEnd(@)]
    /\ pc' = [pc EXCEPT ![t] = "native_call"]
    /\ UNCHANGED <<fsVars, gateVars, op, callsLeft, lcl, ret, waited, outcomes, callLog>>
    /\ UNCHANGED <<arg, dataVars, cfgVars, pureVars, profVars>>

\* ffi.rs:388-392: the options struct of normalize_string holds no pointers
NormalizeOptionsStep(t) ==
    /\ pc[t] = "options"
    /\ op[t] = "normalize_string"
    /\ callLog' = [callLog EXCEPT ![t] = @ \cup {"libpostal_get_default_options"}]
    /\ pc' = [pc EXCEPT ![t] = "native_call"]
    /\ UNCHANGED <<fsVars, gateVars, op, callsLeft, lcl, ret, waited, outcomes>>
    /\ UNCHANGED <<adapterVars, dataVars, cfgVars, pureVars, profVars>>

\* a pointer handed to the native call refers to a released buffer
Dangling(a) ==
    \/ a.c_input # "alive"
    \/ a.opt_language /\ a.language # "alive"
    \/ a.opt_country /\ a.country # "alive"

\* ffi.rs:295-297: a null parser response is an error
ParseNullReturn == Err("ParseError", "libpostal_parse_address returned null")

\* ffi.rs:402-404: a null expansion array is a valid empty result
ExpandNullIsError == Err("NormalizationError", "libpostal_expand_address returned null")

ExpandNullReturn == OkValue(<<>>)

NativeReturned(t, fn, r, nullReturn) ==
    /\ callLog' = [callLog EXCEPT ![t] = @ \cup {fn}]
    /\ IF r.null
         THEN Finish(t, nullReturn, [ad[t] EXCEPT !.res = "null"])
         ELSE /\ ad' = [ad EXCEPT ![t].res = "alive", ![t].entries = r.entries]
              /\ pc' = [pc EXCEPT ![t] = "loop"]
              /\ UNCHANGED ret

\* ffi.rs:290-297: libpostal_parse_address(c_address.as_ptr(), opts)
NativeParse(t) ==
    /\ pc[t] = "native_call"
    /\ op[t] = "parse_address"
    /\ \E r \in NativeResults(ParseEntries) :
          NativeReturned(t, "libpostal_parse_address", r, ParseNullReturn)
    /\ UNCHANGED <<fsVars, gateVars, op, callsLeft, lcl, waited, outcomes>>
    /\ UNCHANGED <<arg, dataVars, cfgVars, pureVars, profVars>>

\* the native library reads a released buffer: besides any result, the
\* process may be killed by the access
NativeParseCrash(t) ==
    /\ pc[t] = "native_call"
    /\ op[t] = "parse_address"
    /\ Dangling(ad[t])
    /\ callLog' = [callLog EXCEPT ![t] = @ \cup {"libpostal_parse_address"}]
    /\ pc' = [p \in Threads |-> "crashed"]
    /\ UNCHANGED <<fsVars, gateVars, op, callsLeft, lcl, ret, waited, outcomes>>
    /\ UNCHANGED <<adapterVars, dataVars, cfgVars, pureVars, profVars>>

\* ffi.rs:396-404: libpostal_expand_address(c_input.as_ptr(), opts, &mut n)
NativeExpand(t) ==
    /\ pc[t] = "native_call"
    /\ op[t] = "normalize_string"
    /\ \E r \in NativeResults(ExpandEntries) :
          NativeReturned(t, "libpostal_expand_address", r, ExpandNullReturn)
    /\ UNCHANGED <<fsVars, gateVars, op, callsLeft, lcl, waited, outcomes>>
    /\ UNCHANGED <<arg, dataVars, cfgVars, pureVars, profVars>>

\* ffi.rs:305-315: an entry with a null pointer is skipped
ParseEntryValue(e) ==
    IF e.component = NullPtr \/ e.label = NullPtr
      THEN <<>>
      ELSE << [label |-> ToStringLossy(e.label), value |-> ToStringLossy(e.component)] >>

\* ffi.rs:409-413
ExpandEntryValue(e) == IF e = NullPtr THEN <<>> ELSE << ToStringLossy(e) >>

\* ffi.rs:303-316 and ffi.rs:408-414: one iteration of the conversion loop,
\* which reads the native result
LoopRead(t) ==
    /\ pc[t] = "loop"
    /\ ad[t].i < Len(ad[t].entries)
    /\ LET e == ad[t].entries[ad[t].i + 1]
           v == IF op[t] = "parse_address" THEN ParseEntryValue(e) ELSE ExpandEntryValue(e)
       IN  ad' = [ad EXCEPT ![t].i = @ + 1,
                            ![t].results = @ \o v,
                            ![t].badRead = @ \/ ad[t].res # "alive"]
    /\ UNCHANGED <<fsVars, gateVars, threadVars, arg, dataVars, cfgVars, pureVars, profVars>>

\* after the loop comes the cleanup of the native result
AfterLoopReturns == "return"

AfterLoopPc == "destroy"

LoopEnd(t) ==
    /\ pc[t] = "loop"
    /\ ad[t].i = Len(ad[t].entries)
    /\ pc' = [pc EXCEPT ![t] = AfterLoopPc]
    /\ UNCHANGED <<fsVars, gateVars, op, callsLeft, lcl, ret, waited, outcomes, callLog>>
    /\ UNCHANGED <<adapterVars, dataVars, cfgVars, pureVars, profVars>>

DestroyFn(name) ==
    IF name = "parse_address" THEN "libpostal_address_parser_response_destroy"
                              ELSE "libpostal_expansion_array_destroy"

\* ffi.rs:319 and ffi.rs:417: the destroy call
Destroy(t) ==
    /\ pc[t] = "destroy"
    /\ ad' = [ad EXCEPT ![t].res = "destroyed", ![t].destroys = @ + 1]
    /\ callLog' = [callLog EXCEPT ![t] = @ \cup {DestroyFn(op[t])}]
    /\ pc' = [pc EXCEPT ![t] = "return"]
    /\ UNCHANGED <<fsVars, gateVars, op, callsLeft, lcl, ret, waited, outcomes>>
    /\ UNCHANGED <<arg, dataVars, cfgVars, pureVars, profVars>>

\* ffi.rs:321 and ffi.rs:419: Ok(results)
ReturnResults(t) ==
    /\ pc[t] = "return"
    /\ Finish(t, OkValue(ad[t].results), ad[t])
    /\ UNCHANGED <<fsVars, gateVars, op, callsLeft, lcl, waited, outcomes, callLog>>
    /\ UNCHANGED <<arg, dataVars, cfgVars, pureVars, profVars>>

AdapterStep(t) ==
    \/ AdapterInitResult(t)
    \/ AdapterCString(t)
    \/ ParseOptionsStep(t)
    \/ HolderScopeEnd(t)
    \/ NormalizeOptionsStep(t)
    \/ NativeParse(t)
    \/ NativeParseCrash(t)
    \/ NativeExpand(t)
    \/ LoopRead(t)
    \/ LoopEnd(t)
    \/ Destroy(t)
    \/ ReturnResults(t)

\* one thread uses the adapter while another calls ffi::initialize
AdapterCallers == {1}

InitCallers == {2}

InitAdapterSpec ==
    /\ AdapterIdle
    /\ DataIdle
    /\ ConfigIdle
    /\ PureIdle
    /\ ProfilerIdle
    /\ fs \in [Dirs -> {NoDir, FullDir}]
    /\ fs["custom_dir"] = NoDir
    /\ fsChanges = 0
    /\ changedAfterInit = FALSE
    /\ GateInit
    /\ ThreadInit([t \in Threads |-> IF t \in AdapterCallers \cup InitCallers THEN 1 ELSE 0])

NextAdapter ==
    \/ \E t \in AdapterCallers : StartParse(t)
    \/ \E t \in AdapterCallers : StartNormalize(t)
    \/ \E t \in InitCallers : StartInitialize(t)
    \/ \E t \in Threads : GateStep(t)
    \/ \E t \in Threads : InitReturn(t)
    \/ \E t \in Threads : AdapterStep(t)

SpecAdapter == InitAdapterSpec /\ [][NextAdapter]_vars

\* a call of the adapter with an embedded NUL byte in its input has returned
NulCallDone(t) ==
    /\ pc[t] = "done"
    /\ op[t] \in AdapterOps
    /\ HasNul(arg[t].input)

\* C3 (as amended): a call of parse_address or normalize_string whose input
\* has an embedded NUL byte fails and makes no default-options, parse, expand
\* or destroy call; it fails with FfiError when initialization has succeeded
\* and with the stored InitializationFailed otherwise, because initialize()
\* comes first and may itself run the native setup.
C3_NulInputFails ==
    \A t \in Threads :
        NulCallDone(t) =>
            /\ callLog[t] \cap (OptionFns \cup WorkFns \cup DestroyFns) = {}
            /\ ad[t].res = "none"
            /\ INITIALIZED => ret[t] = Err("FfiError", InputErrorMessage(op[t]))
            /\ ~INITIALIZED => ret[t] = StoredOutcome /\ ret[t].kind = "InitializationFailed"

\* a NUL input was rejected with FfiError by the call that ran the native setup
C3_Witness ==
    \E t \in Threads :
        /\ NulCallDone(t)
        /\ ret[t].kind = "FfiError"
        /\ callLog[t] # {}

\* C3 as stated: a NUL input always fails with the boundary error and the
\* call makes no native call at all, native setup included.
C3_Original ==
    \A t \in Threads :
        NulCallDone(t) => (ret[t].kind = "FfiError" /\ callLog[t] = {})

\* C4 as stated: when parse_address is about to make the native parse call,
\* the address buffer is alive and no pointer in the options struct refers to
\* a released buffer.
C4_BuffersAliveAtCall ==
    \A t \in Threads :
        (pc[t] = "native_call" /\ op[t] = "parse_address") => ~Dangling(ad[t])

\* C5: a non-null native result is never left unreleased when the function
\* has returned, is destroyed exactly once, is never read after its destroy
\* call, and no destroy call is made for a null result.
C5_ResultReleasedOnce ==
    \A t \in Threads :
        /\ pc[t] = "done" => ad[t].res \in {"none", "null", "destroyed"}
        /\ ad[t].destroys <= 1
        /\ ad[t].res = "destroyed" <=> ad[t].destroys = 1
        /\ ad[t].res = "null" => callLog[t] \cap DestroyFns = {}
        /\ ad[t].destroys = 1 => DestroyFn(op[t]) \in callLog[t]
        /\ ~ad[t].badRead

\* a call has returned Ok after converting a full-length result in which an
\* entry with a null pointer was skipped, and the result was destroyed
C5_Witness ==
    \E t \in Threads :
        /\ pc[t] = "done"
        /\ ret[t].kind = "Ok"
        /\ ad[t].res = "destroyed"
        /\ Len(ad[t].entries) = MaxComponents
        /\ Len(ad[t].results) < Len(ad[t].entries)

DataError(message, file) == [kind |-> "DataError", message |-> message, file |-> file]

NoFile == ""

\* data.rs:130-147: the loop of verify_data from the i-th required file on;
\* ioFail is the file whose fs::metadata call fails, if any
RECURSIVE VerifyFrom(_, _, _)
VerifyFrom(d, i, ioFail) ==
    IF i > Len(required_files)
      THEN OkResult
      ELSE LET file == required_files[i]
           IN  IF ~PathExists(d, file)
                 THEN DataError("Missing data file: {file}", file)
                 ELSE IF ioFail = file
                   THEN DataError("Failed to read metadata for {file}: {e}", file)
                   ELSE IF FileIsEmpty(d, file)
                     THEN DataError("Empty data file: {file}", file)
                     ELSE VerifyFrom(d, i + 1, ioFail)

\* DataManager::verify_data (data.rs:112-150)
verify_data(d, ioFail) ==
    IF ~is_data_available(d)
      THEN DataError("Data files not found", NoFile)
      ELSE VerifyFrom(d, 1, ioFail)

\* validate_data_dir (data.rs:509-524) checks the first four files only
validate_files ==
    << "address_expansions/address_dictionary.dat",
       "numex/numex.dat",
       "transliteration/transliteration.dat",
       "address_parser/address_parser_crf.dat" >>

validate_data_dir(src) ==
    \A i \in 1..Len(validate_files) : PathExists(src, validate_files[i])

\* files written into a directory replace what was there
Overlay(files, delivered) ==
    [f \in RequiredFileSet |-> IF delivered[f] # "absent" THEN delivered[f] ELSE files[f]]

\* the acquisition sources in the order download_real_data tries them
\* (data.rs:225-246) and, for the last method, the mirrors (data.rs:378-381)
SourcesDownloadFirst ==
    << "https://github.com/openvenues/libpostal/releases/download/v1.1/libpostal_data_v1.tar.gz",
       "http://download.geonames.org/libpostal/libpostal_data_v1.tar.gz",
       "libpostal_data",
       "system libpostal",
       "project data" >>

Sources ==
    << "libpostal_data",
       "system libpostal",
       "project data",
       "https://github.com/openvenues/libpostal/releases/download/v1.1/libpostal_data_v1.tar.gz",
       "http://download.geonames.org/libpostal/libpostal_data_v1.tar.gz" >>

\* what the environment offers to one run of acquisition
ValidButIncomplete ==
    [exists |-> TRUE,
     files |-> [f \in RequiredFileSet |->
                  IF \E i \in 1..Len(validate_files) : validate_files[i] = f
                    THEN "data" ELSE "absent"]]

SourceStates ==
    {NoDir, FullDir, ValidButIncomplete,
     [FullDir EXCEPT !.files[required_files[1]] = "absent"]}

RemoteContents ==
    {AllFiles, NoFiles,
     [AllFiles EXCEPT ![required_files[Len(required_files)]] = "absent"],
     [AllFiles EXCEPT ![required_files[1]] = "empty"]}

Envs ==
    [mkdir : BOOLEAN,                        \* fs::create_dir_all succeeds
     helper : {"missing", "fails", "ok"},    \* the libpostal_data executable
     system : SourceStates,                  \* the system installation found
     project : SourceStates,                 \* the project data directory found
     copy : BOOLEAN,                         \* cp -r and the rename succeed
     mirrors : SUBSET {4, 5},                \* the mirrors that deliver an archive
     remote : RemoteContents]                \* what a download delivers

\* does source k deliver? (download_with_libpostal_data data.rs:268-296,
\* copy_from_system_libpostal 466-485, copy_from_project_data 489-506,
\* download_and_extract_data 404-442)
SourceSucceeds(k, env) ==
    CASE k = 1 -> env.helper = "ok"
      [] k = 2 -> env.system.exists /\ validate_data_dir(env.system) /\ env.copy
      [] k = 3 -> env.project.exists /\ validate_data_dir(env.project) /\ env.copy
      [] OTHER -> k \in env.mirrors

SourceDelivers(k, env) ==
    CASE k = 1 -> env.remote
      [] k = 2 -> env.system.files
      [] k = 3 -> env.project.files
      [] OTHER -> env.remote

\* the sources are tried in order until one succeeds
RECURSIVE TryFrom(_, _, _, _)
TryFrom(k, env, d, tried) ==
    IF k > Len(Sources)
      THEN [result |-> DataError("Could not find or download libpostal data files.", NoFile),
            attempts |-> tried, dir |-> d]
      ELSE IF SourceSucceeds(k, env)
        THEN [result |-> OkResult, attempts |-> Append(tried, Sources[k]),
              dir |-> [d EXCEPT !.files = Overlay(@, SourceDelivers(k, env))]]
        ELSE TryFrom(k + 1, env, d, Append(tried, Sources[k]))

\* DataManager::download_real_data (data.rs:214-264)
download_real_data(d, env) ==
    IF ~d.exists /\ ~env.mkdir
      THEN [result |-> DataError("Failed to create data directory: {e}", NoFile),
            attempts |-> <<>>, dir |-> d]
      ELSE TryFrom(1, env, [d EXCEPT !.exists = TRUE], <<>>)

\* data.rs:195: acquisition runs only when auto_download is set
AlwaysDownload(cfg) == TRUE

MayDownload(cfg) == cfg.auto_download

\* data.rs:205: verify_data runs only when verify_integrity is set
NeverVerify(cfg) == FALSE

ShouldVerify(cfg) == cfg.verify_integrity

MsgAutoDownloadDisabled == "Data files not available and auto_download is disabled"

\* data.rs:194: acquisition is considered only when the data is not available
AlwaysNeedsAcquisition(d) == TRUE

NeedsAcquisition(d) == ~is_data_available(d)

\* data.rs:194-203: the acquisition step of ensure_data
Acquire(cfg, d, env) ==
    IF NeedsAcquisition(d)
      THEN IF MayDownload(cfg)
             THEN download_real_data(d, env)
             ELSE [result |-> DataError(MsgAutoDownloadDisabled, NoFile),
                   attempts |-> <<>>, dir |-> d]
      ELSE [result |-> OkResult, attempts |-> <<>>, dir |-> d]

\* ensure_data returning right after a download, without the verification
EnsureDataTrustsDownload(cfg, d, env, ioFail) ==
    LET acquired == Acquire(cfg, d, env)
        base == [result |-> acquired.result, attempts |-> acquired.attempts,
                 dir |-> acquired.dir, verified |-> NoRet]
    IN  IF acquired.result.kind # "Ok" \/ acquired.attempts # <<>>
          THEN base
          ELSE IF ShouldVerify(cfg)
            THEN LET v == verify_data(acquired.dir, ioFail)
                 IN  [base EXCEPT !.result = v, !.verified = v]
            ELSE base

\* DataManager::ensure_data (data.rs:193-210); verified is what verify_data
\* returned, if it ran
ensure_data(cfg, d, env, ioFail) ==
    LET acquired == Acquire(cfg, d, env)
        base == [result |-> acquired.result, attempts |-> acquired.attempts,
                 dir |-> acquired.dir, verified |-> NoRet]
    IN  IF acquired.result.kind # "Ok"
          THEN base
          ELSE IF ShouldVerify(cfg)
            THEN LET v == verify_data(acquired.dir, ioFail)
                 IN  [base EXCEPT !.result = v, !.verified = v]
            ELSE base

IoFailures == {NoFile} \cup RequiredFileSet

\* an environment that offers nothing
QuietEnv ==
    [mkdir |-> FALSE, helper |-> "missing", system |-> NoDir, project |-> NoDir,
     copy |-> FALSE, mirrors |-> {}, remote |-> NoFiles]

\* the environments that matter to a run of ensure_data: it looks at the
\* environment only if it gets as far as download_real_data
EnvsSeenBy(cfg, d) == IF NeedsAcquisition(d) /\ MayDownload(cfg) THEN Envs ELSE {QuietEnv}

\* what each of the first n sources answered, and the files the last of them
\* put into the data directory if it reported success
AttemptOutcomes(n, env) == [k \in 1..n |-> SourceSucceeds(k, env)]

LastDelivered(n, env) ==
    IF n > 0 /\ SourceSucceeds(n, env) THEN SourceDelivers(n, env) ELSE NoFiles

\* a caller asks DataManager::is_data_available
CallIsDataAvailable ==
    /\ dataRes' = [dataRes EXCEPT !.availCalled = TRUE,
                                  !.avail = is_data_available(fs[dm.data_dir])]
    /\ UNCHANGED <<fsVars, gateVars, threadVars, adapterVars, dm, cfgVars, pureVars, profVars>>

\* a caller asks DataManager::verify_data
CallVerifyData ==
    /\ \E ioFail \in IoFailures :
          dataRes' = [dataRes EXCEPT !.verify = verify_data(fs[dm.data_dir], ioFail),
                                     !.ioFail = ioFail]
    /\ UNCHANGED <<fsVars, gateVars, threadVars, adapterVars, dm, cfgVars, pureVars, profVars>>

\* a caller runs DataManager::ensure_data on a fresh manager (ensure_data keeps
\* no state between calls, and the queries above may follow it)
CallEnsureData ==
    /\ dataRes = NoDataRes
    /\ \E env \in EnvsSeenBy(dm, fs[dm.data_dir]) :
          LET r == ensure_data(dm, fs[dm.data_dir], env, NoFile)
              n == Len(r.attempts)
          IN  /\ fs' = [fs EXCEPT ![dm.data_dir] = r.dir]
              /\ dataRes' = [NoDataRes EXCEPT !.ensure = r.result,
                                              !.attempts = r.attempts,
                                              !.availBefore = is_data_available(fs[dm.data_dir]),
                                              !.verified = r.verified,
                                              !.fsChanged = (r.dir # fs[dm.data_dir]),
                                              !.tried = AttemptOutcomes(n, env),
                                              !.delivered = LastDelivered(n, env)]
    /\ UNCHANGED <<fsChanges, changedAfterInit, gateVars, threadVars, adapterVars, dm, cfgVars, pureVars, profVars>>

\* the caller runs DataManager::ensure_data a second time, right after a run
\* that returned Ok; what the sources offer may have changed meanwhile
CallEnsureDataAgain ==
    /\ dataRes.ensure.kind = "Ok"
    /\ dataRes.second = NoRet
    /\ ~dataRes.availCalled
    /\ dataRes.verify = NoRet
    /\ \E env \in EnvsSeenBy(dm, fs[dm.data_dir]) :
          LET r == ensure_data(dm, fs[dm.data_dir], env, NoFile)
          IN  /\ fs' = [fs EXCEPT ![dm.data_dir] = r.dir]
              /\ dataRes' = [dataRes EXCEPT
                    !.second = r.result,
                    !.secondAttempts = r.attempts,
                    !.presentBetween =
                        (fs[dm.data_dir].exists /\
                         \A f \in RequiredFileSet : fs[dm.data_dir].files[f] # "absent"),
                    !.secondChanged = (r.dir # fs[dm.data_dir])]
    /\ UNCHANGED <<fsChanges, changedAfterInit, gateVars, threadVars, adapterVars, dm,
                   cfgVars, pureVars, profVars>>

DataConfigs == [data_dir : Dirs, auto_download : BOOLEAN, verify_integrity : BOOLEAN]

InitDataSpec ==
    /\ AdapterIdle
    /\ ConfigIdle
    /\ PureIdle
    /\ ProfilerIdle
    /\ GateInit
    /\ ThreadInit([t \in Threads |-> 0])
    /\ dm \in DataConfigs
    /\ dataRes = NoDataRes
    /\ fs \in [Dirs -> DirStates]
    /\ \A dir \in Dirs : dir # dm.data_dir => fs[dir] = NoDir
    /\ fsChanges = 0
    /\ changedAfterInit = FALSE

NextData ==
    \/ CallIsDataAvailable
    \/ CallVerifyData
    \/ CallEnsureData
    \/ CallEnsureDataAgain

SpecData == InitDataSpec /\ [][NextData]_vars

\* every required file exists in the directory, whatever its size
AllPresent(d) == d.exists /\ \A f \in RequiredFileSet : d.files[f] # "absent"

\* every required file exists and is not empty
AllNonEmpty(d) == d.exists /\ \A f \in RequiredFileSet : d.files[f] = "data"

BothAnswered == dataRes.availCalled /\ dataRes.verify # NoRet

RECURSIVE FirstDefectiveFrom(_, _)
FirstDefectiveFrom(d, i) ==
    IF i > Len(required_files)
      THEN NoFile
      ELSE IF ~PathExists(d, required_files[i]) \/ FileIsEmpty(d, required_files[i])
        THEN required_files[i]
        ELSE FirstDefectiveFrom(d, i + 1)

\* C8 as stated: when a required file is missing or empty, verify_data
\* returns a DataError that names the first such file.
C8_NamesFirstDefective ==
    LET d == fs[dm.data_dir]
    IN  (dataRes.verify # NoRet /\ dataRes.ioFail = NoFile /\ ~AllNonEmpty(d)) =>
            /\ dataRes.verify.kind = "DataError"
            /\ dataRes.verify.file = FirstDefectiveFrom(d, 1)

\* C9: ensure_data with the data unavailable and auto_download disabled
\* returns the DataError that names the disabled policy, tries no
\* acquisition source and leaves the filesystem as it was.
C9_NoDownloadWhenDisabled ==
    (dataRes.ensure # NoRet /\ ~dataRes.availBefore /\ ~dm.auto_download) =>
        /\ dataRes.ensure = DataError(MsgAutoDownloadDisabled, NoFile)
        /\ dataRes.attempts = <<>>
        /\ ~dataRes.fsChanged

\* ensure_data has returned the policy error for a directory that exists but
\* lacks a required file
C9_Witness ==
    /\ dataRes.ensure = DataError(MsgAutoDownloadDisabled, NoFile)
    /\ ~dm.auto_download
    /\ ~dataRes.availBefore
    /\ fs[dm.data_dir].exists
    /\ ~AllPresent(fs[dm.data_dir])

MsgAllSourcesFailed == "Could not find or download libpostal data files."

MsgCreateDirFailed == "Failed to create data directory: {e}"

\* the order of acquisition the claims speak of: the native helper, the
\* system installation, the project directory, then the mirrors
ExpectedOrder ==
    << "libpostal_data",
       "system libpostal",
       "project data",
       "https://github.com/openvenues/libpostal/releases/download/v1.1/libpostal_data_v1.tar.gz",
       "http://download.geonames.org/libpostal/libpostal_data_v1.tar.gz" >>

\* download_real_data ran and returned an error
AcquisitionFailed == dataRes.ensure.kind = "DataError"
                     /\ dataRes.ensure.message \in {MsgAllSourcesFailed, MsgCreateDirFailed}

\* the sources were tried in the fixed order, each only after all before it
\* had failed, and none after one had succeeded
TriedInOrder ==
    LET n == Len(dataRes.attempts)
    IN  /\ n <= Len(ExpectedOrder)
        /\ \A k \in 1..n : dataRes.attempts[k] = ExpectedOrder[k]
        /\ \A k \in 1..(n - 1) : ~dataRes.tried[k]
        /\ (n > 0 /\ n < Len(ExpectedOrder)) => dataRes.tried[n]
        /\ (n > 0 /\ dataRes.tried[n]) => ~AcquisitionFailed

\* C15 (as amended): download_real_data tries its sources in the fixed
\* order, a fallback only after every higher-priority source has failed and
\* none after one has succeeded, discarding each failure; it returns an error
\* only when every source has failed, or, before any source is tried, when
\* the data directory cannot be created.
C15_SourcesInOrder ==
    dataRes.ensure # NoRet =>
        /\ TriedInOrder
        /\ AcquisitionFailed =>
              \/ /\ Len(dataRes.attempts) = Len(ExpectedOrder)
                 /\ \A k \in 1..Len(ExpectedOrder) : ~dataRes.tried[k]
                 /\ dataRes.ensure.message = MsgAllSourcesFailed
              \/ /\ dataRes.attempts = <<>>
                 /\ dataRes.ensure.message = MsgCreateDirFailed

\* the second mirror delivered after the four sources before it had failed
C15_Witness ==
    /\ dataRes.ensure.kind = "Ok"
    /\ Len(dataRes.attempts) = Len(ExpectedOrder)
    /\ dataRes.tried[Len(ExpectedOrder)]

\* C15 as stated: the sources are tried in the fixed order and an error is
\* returned only when every source has failed.
C15_Original ==
    dataRes.ensure # NoRet =>
        /\ TriedInOrder
        /\ AcquisitionFailed =>
              /\ Len(dataRes.attempts) = Len(ExpectedOrder)
              /\ \A k \in 1..Len(ExpectedOrder) : ~dataRes.tried[k]

\* C16 as stated: whenever a fallback acquisition path (a copy from the
\* system installation or the project directory, or a download from a
\* mirror) reports success, the source it used held every required file.
C16_SourceHadAllFiles ==
    LET n == Len(dataRes.attempts)
    IN  (n >= 2 /\ dataRes.tried[n]) =>
            \A f \in RequiredFileSet : dataRes.delivered[f] # "absent"

ReadyToVerify ==
    LET n == Len(dataRes.attempts)
    IN  dataRes.availBefore \/ (n > 0 /\ dataRes.tried[n])

\* C26: with verify_integrity set, whenever the data was already available
\* or an acquisition reported success, ensure_data returns what verify_data
\* returns for the directory as it then is: Ok only if every required file
\* is present and not empty, and otherwise the error of verify_data unchanged.
C26_VerifyResultPropagated ==
    (dataRes.ensure # NoRet /\ dataRes.second = NoRet /\ dm.verify_integrity /\ ReadyToVerify) =>
        /\ dataRes.ensure = verify_data(fs[dm.data_dir], NoFile)
        /\ dataRes.ensure.kind = "Ok" <=> AllNonEmpty(fs[dm.data_dir])

\* ensure_data returned the error of verify_data directly after an
\* acquisition source had reported success
C26_Witness ==
    /\ dm.verify_integrity
    /\ ~dataRes.availBefore
    /\ dataRes.attempts # <<>>
    /\ dataRes.tried[Len(dataRes.attempts)]
    /\ dataRes.second = NoRet
    /\ dataRes.ensure.kind = "DataError"

\* ------------------------------------------------------------------------
\* LibPostal::with_config (lib.rs:118-140)
\* ------------------------------------------------------------------------
\* LibPostalConfig (lib.rs:272-281) and the build's runtime-data feature
Configs ==
    [auto_download_data : BOOLEAN,
     verify_data_integrity : BOOLEAN,
     data_config : DataConfigs,
     runtime_data : BOOLEAN]

MsgFeatureDisabled == "Data files not available and runtime-data feature disabled"

\* a caller calls LibPostal::with_config(config)
StartWithConfig(t) ==
    /\ pc[t] \in {"idle", "done"}
    /\ callsLeft[t] > 0
    /\ \E c \in Configs : config' = c
    /\ callsLeft' = [callsLeft EXCEPT ![t] = @ - 1]
    /\ op' = [op EXCEPT ![t] = "with_config"]
    /\ pc' = [pc EXCEPT ![t] = "wc_ensure"]
    /\ ret' = [ret EXCEPT ![t] = NoRet]
    /\ callLog' = [callLog EXCEPT ![t] = {}]
    /\ lcl' = [lcl EXCEPT ![t] = NoLocals]
    /\ dataRes' = NoDataRes
    /\ UNCHANGED <<fsVars, gateVars, waited, outcomes, adapterVars, dm, pureVars, profVars>>

\* lib.rs:124 (feature runtime-data): data_manager.ensure_data().await?
WithConfigEnsureData(t) ==
    \E env \in EnvsSeenBy(config.data_config, fs[config.data_config.data_dir]) :
        LET dir == config.data_config.data_dir
            r == ensure_data(config.data_config, fs[dir], env, NoFile)
        IN  /\ fs' = [fs EXCEPT ![dir] = r.dir]
            /\ dataRes' = [NoDataRes EXCEPT !.ensure = r.result,
                                            !.attempts = r.attempts,
                                            !.availBefore = is_data_available(fs[dir]),
                                            !.verified = r.verified,
                                            !.fsChanged = (r.dir # fs[dir])]
            /\ IF r.result.kind # "Ok"
                 THEN /\ ret' = [ret EXCEPT ![t] = r.result]
                      /\ pc' = [pc EXCEPT ![t] = "done"]
                 ELSE /\ pc' = [pc EXCEPT ![t] = "call_once"]
                      /\ UNCHANGED ret

\* lib.rs:128-132 (without the feature): only the availability is checked
WithConfigCheckOnly(t) ==
    /\ IF ~is_data_available(fs[config.data_config.data_dir])
         THEN /\ ret' = [ret EXCEPT ![t] = Err("InitializationFailed", MsgFeatureDisabled)]
              /\ pc' = [pc EXCEPT ![t] = "done"]
         ELSE /\ pc' = [pc EXCEPT ![t] = "call_once"]
              /\ UNCHANGED ret
    /\ UNCHANGED <<fs, dataRes>>

\* lib.rs:120: the data is looked at only when auto_download_data is set
ChecksData(c) == c.auto_download_data

\* lib.rs:119-134: the data step of with_config; ffi::initialize() is next
WithConfigEnsure(t) ==
    /\ pc[t] = "wc_ensure"
    /\ IF ChecksData(config)
         THEN IF config.runtime_data
                THEN WithConfigEnsureData(t)
                ELSE WithConfigCheckOnly(t)
         ELSE /\ pc' = [pc EXCEPT ![t] = "call_once"]
              /\ UNCHANGED <<fs, dataRes, ret>>
    /\ UNCHANGED <<fsChanges, changedAfterInit, gateVars, op, callsLeft, lcl, waited,
                   outcomes, callLog, adapterVars, dm, cfgVars, pureVars, profVars>>

\* lib.rs:137-139: ffi::initialize()?; Ok(Self { config })
WithConfigInitResult(t) ==
    /\ pc[t] = "init_read"
    /\ op[t] = "with_config"
    /\ ret' = [ret EXCEPT ![t] =
            IF StoredOutcome.kind # "Ok" THEN StoredOutcome ELSE OkValue(config)]
    /\ pc' = [pc EXCEPT ![t] = "done"]
    /\ UNCHANGED <<fsVars, gateVars, op, callsLeft, lcl, waited, outcomes, callLog>>
    /\ UNCHANGED <<adapterVars, dataVars, cfgVars, pureVars, profVars>>

ConfigCallers == {1}

ConfigDirStates ==
    {NoDir, FullDir,
     [FullDir EXCEPT !.files[required_files[1]] = "empty"],
     [FullDir EXCEPT !.files[required_files[Len(required_files)]] = "absent"]}

\* one run of with_config in a fresh process
InitConfigSpec ==
    /\ AdapterIdle
    /\ DataIdle
    /\ ConfigIdle
    /\ PureIdle
    /\ ProfilerIdle
    /\ GateInit
    /\ ThreadInit([t \in Threads |-> IF t \in ConfigCallers THEN 1 ELSE 0])
    /\ fs \in [Dirs -> ConfigDirStates]
    /\ fsChanges = 0
    /\ changedAfterInit = FALSE

NextConfig ==
    \/ \E t \in ConfigCallers : StartWithConfig(t)
    \/ \E t \in ConfigCallers : WithConfigEnsure(t)
    \/ \E t \in ConfigCallers : OnceEnter(t)
    \/ \E t \in ConfigCallers : InitCheckData(t)
    \/ \E t \in ConfigCallers : InitNativeSetup(t)
    \/ \E t \in ConfigCallers : InitStore(t)
    \/ \E t \in ConfigCallers : WithConfigInitResult(t)

SpecConfig == InitConfigSpec /\ [][NextConfig]_vars

\* with_config is about to call ffi::initialize
AtInitialize(t) == op[t] = "with_config" /\ pc[t] = "call_once"

\* C10 (as amended): with auto_download_data set, with_config reaches
\* ffi::initialize only with every required data file present in
\* data_config.data_dir, provided the data was available without acquisition,
\* or verify_integrity is set, or the build lacks the runtime-data feature;
\* with auto_download_data = false no data check precedes initialization, and
\* with verify_integrity = false an acquisition that reported success is trusted.
C10_DataPresentWhenChecked ==
    \A t \in Threads :
        ( /\ AtInitialize(t)
          /\ config.auto_download_data
          /\ \/ config.data_config.verify_integrity
             \/ ~config.runtime_data
             \/ dataRes.availBefore )
        => AllPresent(fs[config.data_config.data_dir])

\* with_config reaches ffi::initialize after an acquisition into a custom
\* directory that verify_data accepted
C10_Witness ==
    \E t \in Threads :
        /\ AtInitialize(t)
        /\ config.auto_download_data
        /\ config.runtime_data
        /\ config.data_config.verify_integrity
        /\ config.data_config.data_dir = "custom_dir"
        /\ ~dataRes.availBefore
        /\ dataRes.attempts # <<>>

\* C10 as stated: for every configuration, ffi::initialize is reached only
\* with every required data file present in the data directory.
C10_Original ==
    \A t \in Threads :
        AtInitialize(t) => AllPresent(fs[config.data_config.data_dir])

\* C24 as stated: LibPostalConfig.verify_data_integrity decides whether
\* with_config verifies the data files: when with_config goes on to
\* ffi::initialize, verify_data has run if and only if the field is true.
C24_VerifyFollowsConfigFlag ==
    \A t \in Threads :
        AtInitialize(t) => ((dataRes.verified # NoRet) <=> config.verify_data_integrity)

\* C11 as stated: the directory the Initialization Gate tests for availability
\* and hands to the native setup calls during LibPostal::with_config is
\* config.data_config.data_dir, the directory with_config provisioned.
C11_GateUsesConfiguredDir ==
    \A t \in Threads :
        (op[t] = "with_config" /\ lcl[t].dir # "none") =>
            /\ lcl[t].dir = config.data_config.data_dir
            /\ lcl[t].setupDir \notin {"none", LibraryDefault}
                  => lcl[t].setupDir = config.data_config.data_dir

\* ------------------------------------------------------------------------
\* The environment changes the default data directory
\* ------------------------------------------------------------------------
FsChange ==
    /\ fsChanges < MaxFsChanges
    /\ \E d \in {NoDir, FullDir, [FullDir EXCEPT !.files[required_files[1]] = "absent"]} :
          /\ d # fs[DefaultDir]
          /\ fs' = [fs EXCEPT ![DefaultDir] = d]
    /\ fsChanges' = fsChanges + 1
    /\ changedAfterInit' = (changedAfterInit \/ INIT = "complete")
    /\ UNCHANGED <<gateVars, threadVars>>
    /\ UNCHANGED <<adapterVars, dataVars, cfgVars, pureVars, profVars>>

\* ------------------------------------------------------------------------
\* Specification of the Initialization Gate under concurrent callers
\* ------------------------------------------------------------------------
InitGateSpec ==
    /\ AdapterIdle
    /\ DataIdle
    /\ ConfigIdle
    /\ PureIdle
    /\ ProfilerIdle
    /\ fs \in [Dirs -> {NoDir, FullDir}]
    /\ fs["custom_dir"] = NoDir
    /\ fsChanges = 0
    /\ changedAfterInit = FALSE
    /\ GateInit
    /\ ThreadInit([t \in Threads |-> MaxCalls])

NextGate ==
    \/ \E t \in Threads : StartInitialize(t)
    \/ \E t \in Threads : GateStep(t)
    \/ \E t \in Threads : InitReturn(t)
    \/ FsChange

SpecGate == InitGateSpec /\ [][NextGate]_vars

\* C1: under concurrent callers of ffi::initialize the native setup sequence
\* runs exactly once (the closure is entered once and every setup function is
\* called at most once), no caller gets past call_once before that execution
\* has completed, and all callers return one and the same outcome, which is the
\* stored one.
C1_InitializeOnce ==
    /\ setupRuns <= 1
    /\ \A f \in SetupFns : nativeCalls[f] <= 1
    /\ \A t \in Threads : pc[t] \in {"init_read", "done"} => INIT = "complete"
    /\ Cardinality(outcomes) <= 1
    /\ \A t \in Threads : pc[t] = "done" => ret[t] = StoredOutcome

\* all threads have returned, some had to wait for the running closure, and the
\* one execution ended in Failed
C1_Witness ==
    /\ \A t \in Threads : pc[t] = "done" /\ ret[t].kind = "InitializationFailed"
    /\ waited # {}
    /\ setupRuns = 1
    /\ Cardinality(outcomes) = 1

\* C2: once the Once is complete, no step changes INITIALIZED, the stored
\* message or its length, no step calls a native setup function, and every
\* return of initialize delivers the stored outcome; a message that has been
\* written is never overwritten, whatever happens to the data directory.
C2_TerminalStateFrozen ==
    [][ /\ INIT = "complete" =>
             /\ INIT' = "complete"
             /\ INITIALIZED' = INITIALIZED
             /\ INIT_ERROR_MSG' = INIT_ERROR_MSG
             /\ INIT_ERROR_LEN' = INIT_ERROR_LEN
             /\ nativeCalls' = nativeCalls
             /\ setupRuns' = setupRuns
             /\ \A t \in Threads :
                   (pc[t] = "init_read" /\ pc'[t] = "done") => ret'[t] = StoredOutcome
        /\ INIT_ERROR_LEN > 0 =>
             (INIT_ERROR_MSG' = INIT_ERROR_MSG /\ INIT_ERROR_LEN' = INIT_ERROR_LEN)
      ]_vars

\* a call started after the terminal state was reached and after the data
\* directory changed to a complete one has returned the stored failure
C2_Witness ==
    \E t \in Threads :
        /\ pc[t] = "done"
        /\ op[t] = "initialize"
        /\ lcl[t].late
        /\ ret[t] = Err("InitializationFailed", MsgDataNotFound)
        /\ is_data_available(fs[DefaultDir])
        /\ setupRuns = 1

\* the thread ran the closure of call_once, which has just completed
RanClosure(t) == pc[t] = "init_read" /\ lcl[t].setupDir # "none"

\* C13 as stated: a failed initialization stores the 'data files not found'
\* message exactly when the library-default setup path was taken because the
\* data was unavailable, and the other message exactly when native setup was
\* given an available data directory and rejected it, also when the data
\* directory changes during initialization.
C13_MessageMatchesPath ==
    \A t \in Threads :
        (RanClosure(t) /\ ~INITIALIZED) =>
            INIT_ERROR_MSG = IF lcl[t].avail THEN MsgInitFailed ELSE MsgDataNotFound

\* C14: initialization ends Initialized if and only if each of the three
\* native setup calls reported success (one failure is enough for Failed);
\* with the data available the three calls made are the datadir variants and
\* they receive the directory that was tested, otherwise the three calls made
\* are the directory-less library-default ones.
C14_AllThreeRequired ==
    \A t \in Threads :
        RanClosure(t) =>
            /\ Len(lcl[t].results) = 3
            /\ INITIALIZED <=> (\A i \in 1..3 : lcl[t].results[i])
            /\ lcl[t].avail =>
                  /\ callLog[t] \cap SetupFns = {SetupDatadirFns[i] : i \in 1..3}
                  /\ lcl[t].setupDir = lcl[t].dir
            /\ ~lcl[t].avail =>
                  /\ callLog[t] \cap SetupFns = {SetupDefaultFns[i] : i \in 1..3}
                  /\ lcl[t].setupDir = LibraryDefault

\* initialization has failed although only the language classifier setup,
\* given the available data directory, reported failure
C14_Witness ==
    \E t \in Threads :
        /\ RanClosure(t)
        /\ lcl[t].avail
        /\ lcl[t].results = <<TRUE, TRUE, FALSE>>
        /\ ~INITIALIZED

\* ------------------------------------------------------------------------
\* ffi::teardown (ffi.rs:209-218)
\* ------------------------------------------------------------------------
\* a caller calls ffi::teardown() while no other thread is inside the
\* library, as its safety contract requires; the native functions are called
\* if INITIALIZED is set (ffi.rs:211), and INITIALIZED is left as it was
Teardown(t) ==
    /\ pc[t] \in {"idle", "done"}
    /\ \A u \in Threads : pc[u] \in {"idle", "done"}
    /\ callsLeft[t] > 0
    /\ callsLeft' = [callsLeft EXCEPT ![t] = @ - 1]
    /\ op' = [op EXCEPT ![t] = "teardown"]
    /\ pc' = [pc EXCEPT ![t] = "done"]
    /\ ret' = [ret EXCEPT ![t] = OkResult]
    /\ lcl' = [lcl EXCEPT ![t] = NoLocals]
    /\ IF INITIALIZED
         THEN /\ nativeCalls' = CountCalls(TeardownFns)
              /\ callLog' = [callLog EXCEPT ![t] = {TeardownFns[i] : i \in 1..3}]
         ELSE /\ nativeCalls' = nativeCalls
              /\ callLog' = [callLog EXCEPT ![t] = {}]
    /\ UNCHANGED <<fsVars, INIT, INITIALIZED, INIT_ERROR_MSG, INIT_ERROR_LEN, setupRuns>>
    /\ UNCHANGED <<waited, outcomes>>
    /\ UNCHANGED <<adapterVars, dataVars, cfgVars, pureVars, profVars>>

\* callers of ffi::initialize and ffi::teardown in one process
InitTeardownSpec == InitGateSpec

NextTeardown ==
    \/ \E t \in Threads : StartInitialize(t)
    \/ \E t \in Threads : GateStep(t)
    \/ \E t \in Threads : InitReturn(t)
    \/ \E t \in Threads : Teardown(t)

SpecTeardown == InitTeardownSpec /\ [][NextTeardown]_vars

\* C28 as stated: in any sequence of initialize and teardown calls each
\* native teardown function is invoked at most once, and never unless
\* initialization has succeeded.
C28_TeardownAtMostOnce ==
    \A i \in 1..3 :
        /\ nativeCalls[TeardownFns[i]] <= 1
        /\ nativeCalls[TeardownFns[i]] > 0 => (INITIALIZED /\ StoredOutcome.kind = "Ok")

\* ------------------------------------------------------------------------
\* default_data_dir (data.rs:571-601)
\* ------------------------------------------------------------------------
\* the candidate paths in the order default_data_dir looks at them
Candidates ==
    << "$LIBPOSTAL_DATA_DIR",
       "LIBPOSTAL_BUILT_DATA_DIR",
       "data/libpostal",
       "cache_dir/libpostal-rs",
       ".libpostal-rs" >>

\* what the process finds: whether the environment variable is set, whether
\* the build recorded a data directory, whether dirs::cache_dir() is Some,
\* and the candidate paths that exist (a path that is not defined cannot)
ResolveEnvs ==
    {e \in [env_var : BOOLEAN, built : BOOLEAN, cache : BOOLEAN,
            exists : SUBSET (1..Len(Candidates))] :
        /\ 1 \in e.exists => e.env_var
        /\ 2 \in e.exists => e.built
        /\ 4 \in e.exists => e.cache}

DefaultDataDirBuiltFirst(e) ==
    IF e.built /\ 2 \in e.exists THEN Candidates[2]
    ELSE IF e.env_var /\ 1 \in e.exists THEN Candidates[1]
    ELSE IF 3 \in e.exists THEN Candidates[3]
    ELSE IF e.cache THEN Candidates[4]
    ELSE Candidates[5]

default_data_dir(e) ==
    IF e.env_var /\ 1 \in e.exists THEN Candidates[1]
    ELSE IF e.built /\ 2 \in e.exists THEN Candidates[2]
    ELSE IF 3 \in e.exists THEN Candidates[3]
    ELSE IF e.cache THEN Candidates[4]
    ELSE Candidates[5]

\* the rest of the program is idle while a function without side effects runs
RestIdle ==
    /\ ProfilerIdle
    /\ AdapterIdle
    /\ DataIdle
    /\ ConfigIdle
    /\ GateInit
    /\ ThreadInit([t \in Threads |-> 0])
    /\ fs = [d \in Dirs |-> NoDir]
    /\ fsChanges = 0
    /\ changedAfterInit = FALSE

RestUnchanged ==
    UNCHANGED <<fsVars, gateVars, threadVars, adapterVars, dataVars, cfgVars, profVars>>

InitResolveSpec ==
    /\ RestIdle
    /\ \E e \in ResolveEnvs : call = [fn |-> "default_data_dir", env |-> e, out |-> "none"]

\* a caller asks default_data_dir()
CallDefaultDataDir ==
    /\ call.fn = "default_data_dir"
    /\ call.out = "none"
    /\ call' = [call EXCEPT !.out = default_data_dir(call.env)]
    /\ RestUnchanged

NextResolve == CallDefaultDataDir

SpecResolve == InitResolveSpec /\ [][NextResolve]_vars

Resolved == call.fn = "default_data_dir" /\ call.out # "none"

\* the position of a path among the candidates
CandidateIndex(path) == CHOOSE i \in 1..Len(Candidates) : Candidates[i] = path

\* C12 (as amended): default_data_dir returns the first existing one of
\* (1) LIBPOSTAL_DATA_DIR, (2) the build-time directory, (3) data/libpostal;
\* when none of these three exists it returns the user cache directory's
\* libpostal-rs path whenever the platform reports a cache directory, whether
\* or not that path exists, and the path relative to the working directory
\* only when the platform reports no cache directory; the last two are never
\* tested for existence.
C12_FirstExistingOfThree ==
    Resolved =>
        LET e == call.env
            k == CandidateIndex(call.out)
        IN  /\ k <= 3 => (k \in e.exists /\ \A j \in 1..(k - 1) : j \notin e.exists)
            /\ (e.exists \cap {1, 2, 3} # {}) => k <= 3
            /\ (e.exists \cap {1, 2, 3} = {}) => k = (IF e.cache THEN 4 ELSE 5)

\* the cache path was returned although it does not exist and the path
\* relative to the working directory does
C12_Witness ==
    /\ Resolved
    /\ call.out = Candidates[4]
    /\ call.env.exists = {5}

\* C12 as stated: the first existing one of the five candidates is returned,
\* and the lowest-priority path only if none of the candidates exists.
C12_Original ==
    Resolved =>
        LET e == call.env
            k == CandidateIndex(call.out)
        IN  IF e.exists = {}
              THEN k = Len(Candidates)
              ELSE k \in e.exists /\ \A j \in 1..(k - 1) : j \notin e.exists

\* ------------------------------------------------------------------------
\* ParsedAddress (parser.rs:186-331)
\* ------------------------------------------------------------------------
MaxParsed == 3

\* the Option<String> fields of the struct (parser.rs:190-229); `other` is
\* the Vec<String> after them
ParsedAddressSlots ==
    { "house_number", "road", "unit", "level",
       "staircase", "entrance", "po_box", "postcode",
       "suburb", "city", "city_district", "island",
       "state", "state_district", "country_region", "country",
       "world_region", "category", "near", "toponym" }

\* the labels matched by from_components (parser.rs:240-259)
MatchedLabels ==
    { "house_number", "road", "unit", "level",
       "staircase", "entrance", "po_box", "postcode",
       "suburb", "city", "city_district", "island",
       "state", "state_district", "country_region", "country",
       "world_region", "category", "near", "toponym" }

\* the fields is_empty tests with is_none() (parser.rs:308-327)
is_empty_slots ==
    { "house_number", "road", "unit", "level",
       "staircase", "entrance", "po_box", "postcode",
       "suburb", "city", "city_district", "island",
       "state", "state_district", "country_region", "country",
       "world_region", "category", "near", "toponym" }

\* the fields components() adds to the map, each under its name
\* (parser.rs:279-298)
components_slots ==
    { "house_number", "road", "unit", "level",
       "staircase", "entrance", "po_box", "postcode",
       "suburb", "city", "city_district", "island",
       "state", "state_district", "country_region", "country",
       "world_region", "category", "near", "toponym" }

\* ParsedAddress::default()
DefaultParsed == [slots |-> [l \in ParsedAddressSlots |-> None], other |-> <<>>]

\* one arm of the match: the slot of a matched label is overwritten, the
\* value of any other label is pushed to `other`
StoreFirstWins(parsed, c) ==
    IF c.label \in MatchedLabels
      THEN IF parsed.slots[c.label] = None
             THEN [parsed EXCEPT !.slots[c.label] = Some(c.value)]
             ELSE parsed
      ELSE [parsed EXCEPT !.other = Append(@, c.value)]

StoreComponent(parsed, c) ==
    IF c.label \in MatchedLabels
      THEN [parsed EXCEPT !.slots[c.label] = Some(c.value)]
      ELSE [parsed EXCEPT !.other = Append(@, c.value)]

\* the loop of from_components from the i-th component on
RECURSIVE FoldComponents(_, _, _)
FoldComponents(parsed, cs, i) ==
    IF i > Len(cs)
      THEN parsed
      ELSE FoldComponents(StoreComponent(parsed, cs[i]), cs, i + 1)

\* ParsedAddress::from_components (parser.rs:235-265); it always returns Ok
from_components(cs) == FoldComponents(DefaultParsed, cs, 1)

IsEmptyIgnoringOther(p) == \A l \in is_empty_slots : p.slots[l] = None

\* ParsedAddress::is_empty (parser.rs:307-330)
is_empty(p) ==
    /\ \A l \in is_empty_slots : p.slots[l] = None
    /\ p.other = <<>>

\* ParsedAddress::components (parser.rs:268-304): the map as its set of
\* entries; the keys of the overflow values are other_0, other_1, ...
components(p) ==
    {[key |-> <<l>>, value |-> p.slots[l].v] : l \in {x \in components_slots : p.slots[x].some}}
    \cup {[key |-> <<"other_", i - 1>>, value |-> p.other[i]] : i \in 1..Len(p.other)}

\* the components the native parser may have produced
InputLabels == {"house_number", "road", "toponym", "unknown_label"}

InputValues == {"123", "Main St", "X"}

AddressComponents == [label : InputLabels, value : InputValues]

ComponentLists == UNION {[1..k -> AddressComponents] : k \in 0..MaxParsed}

InitParsedSpec ==
    /\ RestIdle
    /\ \E cs \in ComponentLists :
          call = [fn |-> "from_components", components |-> cs, done |-> FALSE,
                  out |-> [parsed |-> DefaultParsed, empty |-> TRUE, map |-> {}]]

\* from_components(components), then is_empty() and components() of its result
CallFromComponents ==
    /\ call.fn = "from_components"
    /\ ~call.done
    /\ LET p == from_components(call.components)
       IN  call' = [call EXCEPT !.done = TRUE,
                                !.out = [parsed |-> p, empty |-> is_empty(p),
                                         map |-> components(p)]]
    /\ RestUnchanged

NextParsed == CallFromComponents

SpecParsed == InitParsedSpec /\ [][NextParsed]_vars

Folded == call.fn = "from_components" /\ call.done

\* the positions of the components with label l
Positions(cs, l) == {i \in 1..Len(cs) : cs[i].label = l}

Max(S) == CHOOSE m \in S : \A x \in S : x <= m

Unrecognized(c) == c.label \notin ParsedAddressSlots

RECURSIVE Values(_)
Values(cs) == IF cs = <<>> THEN <<>> ELSE <<Head(cs).value>> \o Values(Tail(cs))

\* C17: from_components sets each slot to the value of the last component
\* carrying its label and leaves it None when no component does, and appends
\* the values of the components with unrecognized labels to `other` in input
\* order; [(house_number,123),(road,Main St),(unknown_label,X)] gives
\* house_number = 123, road = Main St, other = [X].
C17_FoldByLabel ==
    Folded =>
        LET cs == call.components
            p == call.out.parsed
        IN  /\ \A l \in ParsedAddressSlots :
                  p.slots[l] = IF Positions(cs, l) = {}
                                 THEN None
                                 ELSE Some(cs[Max(Positions(cs, l))].value)
            /\ p.other = Values(SelectSeq(cs, Unrecognized))
            /\ cs = << [label |-> "house_number", value |-> "123"],
                       [label |-> "road", value |-> "Main St"],
                       [label |-> "unknown_label", value |-> "X"] >>
                 => /\ p.slots["house_number"] = Some("123")
                    /\ p.slots["road"] = Some("Main St")
                    /\ p.other = <<"X">>
                    /\ \A l \in ParsedAddressSlots \ {"house_number", "road"} :
                          p.slots[l] = None

\* a list that repeats the label road and carries an unrecognized label was
\* folded: road holds the later value
C17_Witness ==
    /\ Folded
    /\ call.components = << [label |-> "road", value |-> "123"],
                            [label |-> "unknown_label", value |-> "X"],
                            [label |-> "road", value |-> "Main St"] >>
    /\ call.out.parsed.slots["road"] = Some("Main St")
    /\ call.out.parsed.other = <<"X">>

\* C18: is_empty() is true if and only if every named slot is None and the
\* overflow list is empty; from_components of a non-empty list is never
\* empty; and is_empty() holds if and only if components() is an empty map.
C18_EmptyIffNothingSet ==
    Folded =>
        LET p == call.out.parsed
        IN  /\ call.out.empty <=>
                  ((\A l \in ParsedAddressSlots : p.slots[l] = None) /\ Len(p.other) = 0)
            /\ call.components # <<>> => ~call.out.empty
            /\ call.out.empty <=> (call.out.map = {})

\* a list of unrecognized labels only was folded: no slot is set, yet the
\* address is not empty and its map holds the overflow values
C18_Witness ==
    /\ Folded
    /\ Len(call.components) = MaxParsed
    /\ \A l \in ParsedAddressSlots : call.out.parsed.slots[l] = None
    /\ ~call.out.empty
    /\ Cardinality(call.out.map) = MaxParsed

\* ------------------------------------------------------------------------
\* AddressParser::parse / parse_batch (parser.rs:71-79) and
\* AddressNormalizer::normalize / normalize_batch (normalizer.rs:116-127)
\* ------------------------------------------------------------------------
MaxBatch == 3

\* the whole conversion loop of ffi::parse_address (ffi.rs:302-316)
RECURSIVE ConvertParseEntries(_)
ConvertParseEntries(es) ==
    IF es = <<>> THEN <<>> ELSE ParseEntryValue(Head(es)) \o ConvertParseEntries(Tail(es))

\* the whole conversion loop of ffi::normalize_string (ffi.rs:407-414)
RECURSIVE ConvertExpandEntries(_)
ConvertExpandEntries(es) ==
    IF es = <<>> THEN <<>> ELSE ExpandEntryValue(Head(es)) \o ConvertExpandEntries(Tail(es))

\* the value of ffi::parse_address(s, ..) when the gate's stored outcome is
\* gate and the native parse call answers r
ParseAddressResult(gate, s, r) ==
    IF gate.kind # "Ok" THEN gate
    ELSE IF ~CStringNew(s).ok THEN Err("FfiError", InputErrorMessage("parse_address"))
    ELSE IF r.null THEN ParseNullReturn
    ELSE OkValue(ConvertParseEntries(r.entries))

\* the value of ffi::normalize_string(s, ..) likewise
NormalizeStringResult(gate, s, r) ==
    IF gate.kind # "Ok" THEN gate
    ELSE IF ~CStringNew(s).ok THEN Err("FfiError", InputErrorMessage("normalize_string"))
    ELSE IF r.null THEN ExpandNullReturn
    ELSE OkValue(ConvertExpandEntries(r.entries))

\* AddressParser::parse (parser.rs:71-74)
parse(gate, item) ==
    LET c == ParseAddressResult(gate, item.input, item.native)
    IN  IF c.kind = "Ok" THEN OkValue(from_components(c.value)) ELSE c

\* AddressNormalizer::normalize (normalizer.rs:116-122)
normalize(gate, item) ==
    FacadeWrap([input |-> item.input, facade |-> TRUE],
               NormalizeStringResult(gate, item.input, item.native))

SingleCall(fn, gate, item) ==
    IF fn = "parse_batch" THEN parse(gate, item) ELSE normalize(gate, item)

\* collect() into Result<Vec<_>> pushes each Ok value at the end of the vector
PushFront(acc, v) == <<v>> \o acc

PushBack(acc, v) == Append(acc, v)

\* a collect that maps every item before it looks for an error
CollectEagerly(fn, gate, items, i, acc) ==
    LET failing == {k \in i..Len(items) : SingleCall(fn, gate, items[k]).kind # "Ok"}
    IN  IF failing = {}
          THEN [result |-> OkValue(acc \o [k \in 1..(Len(items) - i + 1) |->
                                              SingleCall(fn, gate, items[k + i - 1]).value]),
                calls |-> Len(items)]
          ELSE [result |-> SingleCall(fn, gate,
                                      items[CHOOSE k \in failing : \A j \in failing : k <= j]),
                calls |-> Len(items)]

\* iter().map(..).collect::<Result<Vec<_>>>(): the items are mapped one by
\* one in order and the first Err ends the iteration and is the result
RECURSIVE CollectFrom(_, _, _, _, _)
CollectFrom(fn, gate, items, i, acc) ==
    IF i > Len(items)
      THEN [result |-> OkValue(acc), calls |-> Len(items)]
      ELSE LET r == SingleCall(fn, gate, items[i])
           IN  IF r.kind # "Ok"
                 THEN [result |-> r, calls |-> i]
                 ELSE CollectFrom(fn, gate, items, i + 1, PushBack(acc, r.value))

\* parse_batch (parser.rs:77-79) and normalize_batch (normalizer.rs:125-127)
batch(fn, gate, items) == CollectFrom(fn, gate, items, 1, <<>>)

BatchInputs == {<<97>>, <<97, 97>>, <<97, 0>>}

ParseResponses ==
    { [null |-> TRUE, entries |-> <<>>],
      [null |-> FALSE, entries |-> << [component |-> "123", label |-> "house_number"],
                                     [component |-> InvalidUtf8, label |-> "road"] >>],
      [null |-> FALSE, entries |-> << [component |-> NullPtr, label |-> "road"],
                                     [component |-> "123", label |-> "house_number"] >>] }

ExpandResponses ==
    { [null |-> TRUE, entries |-> <<>>],
      [null |-> FALSE, entries |-> <<"main street", InvalidUtf8>>],
      [null |-> FALSE, entries |-> <<InvalidUtf8, NullPtr, "main street">>] }

BatchFns == {"parse_batch", "normalize_batch"}

Responses(fn) == IF fn = "parse_batch" THEN ParseResponses ELSE ExpandResponses

BatchItems(fn) == [input : BatchInputs, native : Responses(fn)]

GateOutcomes == {OkResult, Err("InitializationFailed", MsgInitFailed)}

InitBatchSpec ==
    /\ RestIdle
    /\ \E fn \in BatchFns, gate \in GateOutcomes :
          \E items \in UNION {[1..k -> BatchItems(fn)] : k \in 0..MaxBatch} :
              call = [fn |-> fn, gate |-> gate, items |-> items, done |-> FALSE,
                      out |-> [result |-> NoRet, calls |-> 0]]

\* a caller calls parse_batch or normalize_batch
CallBatch ==
    /\ call.fn \in BatchFns
    /\ ~call.done
    /\ call' = [call EXCEPT !.done = TRUE,
                            !.out = batch(call.fn, call.gate, call.items)]
    /\ RestUnchanged

NextBatch == CallBatch

SpecBatch == InitBatchSpec /\ [][NextBatch]_vars

\* the pointers of an expansion array that are not null
NotNull(e) == e # NullPtr

\* C19: parse_batch and normalize_batch give each item to the single-item
\* call; when every item succeeds the result is Ok with one output per input
\* and output i is the result of item i; each normalized output keeps the
\* non-null expansions in the order of the native array.
C19_BatchKeepsOrder ==
    (call.fn \in BatchFns /\ call.done) =>
        LET items == call.items
            single(i) == SingleCall(call.fn, call.gate, items[i])
            out == call.out.result
        IN  /\ (\A i \in 1..Len(items) : single(i).kind = "Ok") =>
                  /\ out.kind = "Ok"
                  /\ Len(out.value) = Len(items)
                  /\ \A i \in 1..Len(items) : out.value[i] = single(i).value
                  /\ call.out.calls = Len(items)
            /\ (out.kind = "Ok" /\ call.fn = "normalize_batch") =>
                  \A i \in 1..Len(out.value) :
                      /\ out.value[i].original = items[i].input
                      /\ items[i].native.null => out.value[i].expansions = <<>>
                      /\ ~items[i].native.null =>
                            LET kept == SelectSeq(items[i].native.entries, NotNull)
                            IN  /\ Len(out.value[i].expansions) = Len(kept)
                                /\ \A j \in 1..Len(kept) :
                                      out.value[i].expansions[j] = ToStringLossy(kept[j])

\* normalize_batch has returned Ok for a full batch whose first and last
\* inputs differ and whose first item has more than one expansion
C19_Witness ==
    /\ call.fn = "normalize_batch"
    /\ call.done
    /\ call.out.result.kind = "Ok"
    /\ Len(call.items) = MaxBatch
    /\ call.items[1].input # call.items[MaxBatch].input
    /\ Len(call.out.result.value[1].expansions) > 1

\* the items of the batch whose single-item call fails
FailingItems ==
    {i \in 1..Len(call.items) : SingleCall(call.fn, call.gate, call.items[i]).kind # "Ok"}

\* C30: parse_batch and normalize_batch are all-or-nothing: if an item fails
\* the call returns the error of the first failing item in input order and
\* no value of an earlier item, and no item after the failing one is given
\* to the single-item call (so none reaches the native library).
C30_BatchAllOrNothing ==
    (call.fn \in BatchFns /\ call.done /\ FailingItems # {}) =>
        LET first == CHOOSE i \in FailingItems : \A j \in FailingItems : i <= j
        IN  /\ call.out.result = SingleCall(call.fn, call.gate, call.items[first])
            /\ call.out.result.kind # "Ok"
            /\ "value" \notin DOMAIN call.out.result
            /\ call.out.calls = first

\* a full batch whose first item succeeded, whose second item failed in the
\* native library and whose last item would have succeeded
C30_Witness ==
    /\ call.fn = "parse_batch"
    /\ call.done
    /\ call.gate.kind = "Ok"
    /\ Len(call.items) = MaxBatch
    /\ FailingItems = {2}
    /\ call.out.result = ParseNullReturn
    /\ call.out.calls = 2

\* ------------------------------------------------------------------------
\* DataManager::download_and_extract_data and extract_tar_gz
\* (data.rs:404-462), step by step, for one mirror URL
\* ------------------------------------------------------------------------
\* the entries of the data archive in the order they are unpacked: the
\* required files and, after them, the files the library does not require
OtherFiles == "other files"

ArchiveEntries == required_files \o <<OtherFiles>>

\* the bodies a server may send: corruptAt = 0 for an intact archive, or the
\* entry at which decoding the gzip or tar stream fails
Bodies == [corruptAt : 0..Len(ArchiveEntries)]

\* the data directories acquisition starts from: is_data_available is false
StartDirs ==
    {EmptyDir,
     [FullDir EXCEPT !.files[required_files[1]] = "absent"],
     [FullDir EXCEPT !.files[required_files[Len(required_files)]] = "absent"]}

NoDownload ==
    [fn |-> "download_and_extract_data", pc |-> "get", body |-> [corruptAt |-> 0],
     archive |-> "absent", next |-> 1, unpacked |-> 0, complete |-> FALSE,
     requests |-> 0, out |-> NoRet]

InitDownloadSpec ==
    /\ ProfilerIdle
    /\ AdapterIdle
    /\ DataIdle
    /\ ConfigIdle
    /\ GateInit
    /\ ThreadInit([t \in Threads |-> 0])
    /\ \E d \in StartDirs : fs = [x \in Dirs |-> IF x = DefaultDir THEN d ELSE NoDir]
    /\ fsChanges = 0
    /\ changedAfterInit = FALSE
    /\ call = NoDownload

DownloadRest ==
    UNCHANGED <<fsChanges, changedAfterInit, gateVars, threadVars, adapterVars, dataVars,
                cfgVars, profVars>>

\* the function returns the error
Fails(message) == [call EXCEPT !.pc = "returned", !.out = DataError(message, NoFile)]

\* data.rs:408-421: one GET request, its status and its body
HttpGet ==
    /\ call.fn = "download_and_extract_data"
    /\ call.pc = "get"
    /\ \/ call' = [Fails("Failed to download data: {e}") EXCEPT !.requests = 1]
       \/ call' = [Fails("Download failed with status: {}") EXCEPT !.requests = 1]
       \/ call' = [Fails("Failed to read response: {e}") EXCEPT !.requests = 1]
       \/ \E b \in Bodies : call' = [call EXCEPT !.pc = "create", !.body = b, !.requests = 1]
    /\ UNCHANGED fs
    /\ DownloadRest

\* data.rs:426-433: the body is saved as data.tar.gz in the data directory
WriteArchive ==
    /\ call.fn = "download_and_extract_data"
    /\ call.pc = "create"
    /\ \/ call' = Fails("Failed to create archive file: {e}")
       \/ call' = [Fails("Failed to write archive file: {e}") EXCEPT !.archive = "partial"]
       \/ call' = [call EXCEPT !.pc = "extract", !.archive = "whole"]
    /\ UNCHANGED fs
    /\ DownloadRest

\* what an interrupted unpacking may leave of the entry it was writing: the
\* file as it was, or created and empty, or written in part
LeftBy(d, k) ==
    IF k > Len(required_files)
      THEN {d}
      ELSE {d} \cup {[d EXCEPT !.files[ArchiveEntries[k]] = st] : st \in {"empty", "data"}}

\* data.rs:451-459: archive.unpack writes the entries one after the other
\* into the data directory and stops at the first it cannot decode
UnpackEntry ==
    /\ call.fn = "download_and_extract_data"
    /\ call.pc = "extract"
    /\ call.next <= Len(ArchiveEntries)
    /\ IF call.body.corruptAt = call.next
         THEN /\ call' = Fails("Failed to extract archive: {e}")
              /\ \E d \in LeftBy(fs[DefaultDir], call.next) :
                    fs' = [fs EXCEPT ![DefaultDir] = d]
         ELSE /\ call' = [call EXCEPT !.next = @ + 1, !.unpacked = @ + 1]
              /\ fs' = IF call.next <= Len(required_files)
                         THEN [fs EXCEPT ![DefaultDir].files[ArchiveEntries[call.next]] = "data"]
                         ELSE fs
    /\ DownloadRest

\* data.rs:436-441: unpack has returned Ok; the archive file is removed and
\* the function returns Ok
RemoveArchive ==
    /\ call.fn = "download_and_extract_data"
    /\ call.pc = "extract"
    /\ call.next > Len(ArchiveEntries)
    /\ call' = [call EXCEPT !.pc = "returned", !.complete = TRUE, !.archive = "absent",
                             !.out = OkResult]
    /\ UNCHANGED fs
    /\ DownloadRest

\* the process is killed while the function runs
Crash ==
    /\ call.fn = "download_and_extract_data"
    /\ call.pc \in {"get", "create", "extract"}
    /\ call' = [call EXCEPT !.pc = "crashed"]
    /\ IF call.pc = "extract" /\ call.next <= Len(ArchiveEntries)
         THEN \E d \in LeftBy(fs[DefaultDir], call.next) : fs' = [fs EXCEPT ![DefaultDir] = d]
         ELSE UNCHANGED fs
    /\ DownloadRest

NextDownload ==
    \/ HttpGet
    \/ WriteArchive
    \/ UnpackEntry
    \/ RemoveArchive
    \/ Crash

SpecDownload == InitDownloadSpec /\ [][NextDownload]_vars

\* the run of acquisition has ended, by a return or by a crash
RunEnded == call.fn = "download_and_extract_data" /\ call.pc \in {"returned", "crashed"}

\* C21 as stated: after every run of acquisition, also one that failed or
\* crashed during download or extraction, the data is detected as installed
\* by the next run only if the extraction completed.
C21_InstalledOnlyAfterExtraction ==
    (RunEnded /\ is_data_available(fs[DefaultDir])) => call.complete

\* C22 as stated: no partial or corrupt archive is ever extracted or treated
\* as complete: an entry is unpacked only from an intact archive that was
\* written whole, and a failed download fails the acquisition from that URL.
C22_OnlyIntactArchiveExtracted ==
    call.fn = "download_and_extract_data" =>
        /\ call.unpacked > 0 => (call.body.corruptAt = 0 /\ call.archive \in {"whole", "absent"})
        /\ call.out.kind = "Ok" => (call.body.corruptAt = 0 /\ call.complete)

\* ------------------------------------------------------------------------
\* AddressParser::parse_batch_parallel / parse_batch_parallel_ok
\* (parser.rs:121-175, feature parallel)
\* ------------------------------------------------------------------------
ParallelFns == {"parse_batch_parallel", "parse_batch_parallel_ok"}

\* collecting an indexed parallel iterator into a Vec gives the result of
\* item i the position i, whichever worker produced it and whenever
PlaceAtFirstFree(slots, i, r) ==
    [slots EXCEPT ![CHOOSE k \in 1..Len(slots) :
                        slots[k] = NoRet /\ \A j \in 1..(k - 1) : slots[j] # NoRet] = r]

PlaceResult(slots, i, r) == [slots EXCEPT ![i] = r]

\* parser.rs:171-173: into_iter().filter_map(|result| result.ok()).collect()
RECURSIVE FilterOk(_)
FilterOk(results) ==
    IF results = <<>> THEN <<>>
    ELSE IF Head(results).kind = "Ok"
      THEN <<Head(results).value>> \o FilterOk(Tail(results))
      ELSE FilterOk(Tail(results))

\* a call of one of the two functions on a batch; no item has been parsed yet
InitParallelSpec ==
    /\ RestIdle
    /\ \E fn \in ParallelFns, gate \in GateOutcomes :
          \E items \in UNION {[1..k -> BatchItems("parse_batch")] : k \in 0..MaxBatch} :
              call = [fn |-> fn, gate |-> gate, items |-> items,
                      slots |-> [i \in 1..Len(items) |-> NoRet],
                      outOfOrder |-> FALSE, done |-> FALSE, out |-> NoRet]

\* parser.rs:127-133: a worker thread parses one item not parsed yet, with
\* its own parser; the items are taken in any order
WorkerParse ==
    /\ call.fn \in ParallelFns
    /\ ~call.done
    /\ \E i \in 1..Len(call.items) :
          /\ call.slots[i] = NoRet
          /\ call' = [call EXCEPT
                !.slots = PlaceResult(call.slots, i, parse(call.gate, call.items[i])),
                !.outOfOrder = @ \/ \E j \in 1..(i - 1) : call.slots[j] = NoRet]
    /\ RestUnchanged

\* parser.rs:125-134 and 169-174: every item is parsed and the call returns
CollectParallel ==
    /\ call.fn \in ParallelFns
    /\ ~call.done
    /\ \A i \in 1..Len(call.items) : call.slots[i] # NoRet
    /\ call' = [call EXCEPT
            !.done = TRUE,
            !.out = IF call.fn = "parse_batch_parallel"
                      THEN OkValue(call.slots)
                      ELSE OkValue(FilterOk(call.slots))]
    /\ RestUnchanged

NextParallel == WorkerParse \/ CollectParallel

SpecParallel == InitParallelSpec /\ [][NextParallel]_vars

\* the items of the batch whose parse succeeds
OkItems == {i \in 1..Len(call.items) : parse(call.gate, call.items[i]).kind = "Ok"}

\* the k-th of them in input order
NthOk(k) == CHOOSE i \in OkItems : Cardinality({j \in OkItems : j <= i}) = k

\* C25: parse_batch_parallel returns Ok with one entry per input, entry i
\* being the result of parsing item i, a failure as an Err in its own place,
\* whatever order the workers finish in; parse_batch_parallel_ok returns the
\* values of the Ok entries, and only those, in their input order.
C25_ParallelKeepsOrder ==
    (call.fn \in ParallelFns /\ call.done) =>
        /\ call.out.kind = "Ok"
        /\ call.fn = "parse_batch_parallel" =>
              /\ Len(call.out.value) = Len(call.items)
              /\ \A i \in 1..Len(call.items) :
                    call.out.value[i] = parse(call.gate, call.items[i])
        /\ call.fn = "parse_batch_parallel_ok" =>
              /\ Len(call.out.value) = Cardinality(OkItems)
              /\ \A k \in 1..Cardinality(OkItems) :
                    call.out.value[k] = parse(call.gate, call.items[NthOk(k)]).value

\* parse_batch_parallel has returned a full batch whose workers finished out
\* of input order, with an Err between two Ok entries that differ
C25_Witness ==
    /\ call.fn = "parse_batch_parallel"
    /\ call.done
    /\ call.outOfOrder
    /\ Len(call.items) = MaxBatch
    /\ call.out.value[1].kind = "Ok"
    /\ call.out.value[2].kind # "Ok"
    /\ call.out.value[MaxBatch].kind = "Ok"
    /\ call.out.value[1] # call.out.value[MaxBatch]

\* ------------------------------------------------------------------------
\* PerformanceProfiler (profiling.rs:106-168)
\* ------------------------------------------------------------------------
\* durations in microseconds, those of tests::test_performance_profiler
Durations == {50, 100}

RecordFns == {"record_parse_operation", "record_normalize_operation"}

\* the PerformanceSummary built from the three loaded values
\* (profiling.rs:144-159)
PerformanceSummary(operation_count, total_parse_time_us, total_normalize_time_us) ==
    [total_operations |-> operation_count,
     average_parse_time |->
         IF operation_count > 0 THEN total_parse_time_us \div operation_count ELSE 0,
     average_normalize_time |->
         IF operation_count > 0 THEN total_normalize_time_us \div operation_count ELSE 0]

\* a step of thread t on the profiler is seen by the summary calls that other
\* threads have in progress
Disturbed(t, byRecord) ==
    [u \in Threads |->
        IF u # t /\ op[u] = "summary" /\ pc[u] # "done"
          THEN [lcl[u] EXCEPT !.othersDuring = TRUE,
                              !.recordsDuring = @ \/ byRecord]
          ELSE lcl[u]]

OthersQuiet(t) == \A u \in Threads \ {t} : pc[u] \in {"idle", "done"}

ProfilerRest == UNCHANGED <<fsVars, gateVars, waited, outcomes, callLog,
                            adapterVars, dataVars, cfgVars, pureVars>>

\* profiling.rs:126 and 133: a caller calls record_parse_operation or
\* record_normalize_operation, whose first step adds one to operation_count
RecordCount(t) ==
    /\ pc[t] \in {"idle", "done"}
    /\ callsLeft[t] > 0
    /\ \E fn \in RecordFns, d \in Durations :
          /\ op' = [op EXCEPT ![t] = fn]
          /\ lcl' = [Disturbed(t, TRUE) EXCEPT ![t] = [duration |-> d]]
    /\ callsLeft' = [callsLeft EXCEPT ![t] = @ - 1]
    /\ profiler' = [profiler EXCEPT !.operation_count = @ + 1]
    /\ pc' = [pc EXCEPT ![t] = "record_time"]
    /\ ret' = [ret EXCEPT ![t] = NoRet]
    /\ UNCHANGED recorded
    /\ ProfilerRest

\* profiling.rs:127-128 and 134-135: the duration is added to the total of
\* the operation's kind, and the call returns
RecordTime(t) ==
    /\ pc[t] = "record_time"
    /\ IF op[t] = "record_parse_operation"
         THEN /\ profiler' = [profiler EXCEPT !.total_parse_time = @ + lcl[t].duration]
              /\ recorded' = [recorded EXCEPT !.parses = @ + 1,
                                               !.parse_us = @ + lcl[t].duration]
         ELSE /\ profiler' = [profiler EXCEPT !.total_normalize_time = @ + lcl[t].duration]
              /\ recorded' = [recorded EXCEPT !.normalizes = @ + 1,
                                               !.normalize_us = @ + lcl[t].duration]
    /\ lcl' = Disturbed(t, TRUE)
    /\ pc' = [pc EXCEPT ![t] = "done"]
    /\ UNCHANGED <<op, callsLeft, ret>>
    /\ ProfilerRest

\* profiling.rs:140: a caller calls summary(), which first loads operation_count
SummaryLoadCount(t) ==
    /\ pc[t] \in {"idle", "done"}
    /\ callsLeft[t] > 0
    /\ callsLeft' = [callsLeft EXCEPT ![t] = @ - 1]
    /\ op' = [op EXCEPT ![t] = "summary"]
    /\ lcl' = [lcl EXCEPT ![t] =
            [operation_count |-> profiler.operation_count,
             total_parse_time_us |-> 0,
             total_normalize_time_us |-> 0,
             before |-> profiler,
             history |-> recorded,
             alone |-> OthersQuiet(t),
             othersDuring |-> FALSE,
             recordsDuring |-> FALSE]]
    /\ pc' = [pc EXCEPT ![t] = "summary_parse"]
    /\ ret' = [ret EXCEPT ![t] = NoRet]
    /\ UNCHANGED profVars
    /\ ProfilerRest

\* profiling.rs:141
SummaryLoadParse(t) ==
    /\ pc[t] = "summary_parse"
    /\ lcl' = [lcl EXCEPT ![t].total_parse_time_us = profiler.total_parse_time]
    /\ pc' = [pc EXCEPT ![t] = "summary_normalize"]
    /\ UNCHANGED <<op, callsLeft, ret, profVars>>
    /\ ProfilerRest

\* profiling.rs:142-159: the last load, and the summary built from the three
SummaryLoadNormalize(t) ==
    /\ pc[t] = "summary_normalize"
    /\ lcl' = [lcl EXCEPT ![t].total_normalize_time_us = profiler.total_normalize_time]
    /\ ret' = [ret EXCEPT ![t] =
            PerformanceSummary(lcl[t].operation_count, lcl[t].total_parse_time_us,
                               profiler.total_normalize_time)]
    /\ pc' = [pc EXCEPT ![t] = "done"]
    /\ UNCHANGED <<op, callsLeft, profVars>>
    /\ ProfilerRest

\* profiling.rs:164: a caller calls reset(), which first stores 0 to operation_count
ResetCount(t) ==
    /\ pc[t] \in {"idle", "done"}
    /\ callsLeft[t] > 0
    /\ callsLeft' = [callsLeft EXCEPT ![t] = @ - 1]
    /\ op' = [op EXCEPT ![t] = "reset"]
    /\ lcl' = [Disturbed(t, FALSE) EXCEPT ![t] = NoLocals]
    /\ profiler' = [profiler EXCEPT !.operation_count = 0]
    /\ recorded' = [recorded EXCEPT !.resets = @ + 1]
    /\ pc' = [pc EXCEPT ![t] = "reset_parse"]
    /\ ret' = [ret EXCEPT ![t] = NoRet]
    /\ ProfilerRest

\* profiling.rs:165
ResetParse(t) ==
    /\ pc[t] = "reset_parse"
    /\ profiler' = [profiler EXCEPT !.total_parse_time = 0]
    /\ lcl' = Disturbed(t, FALSE)
    /\ pc' = [pc EXCEPT ![t] = "reset_normalize"]
    /\ UNCHANGED <<op, callsLeft, ret, recorded>>
    /\ ProfilerRest

\* profiling.rs:166
ResetNormalize(t) ==
    /\ pc[t] = "reset_normalize"
    /\ profiler' = [profiler EXCEPT !.total_normalize_time = 0]
    /\ lcl' = Disturbed(t, FALSE)
    /\ pc' = [pc EXCEPT ![t] = "done"]
    /\ UNCHANGED <<op, callsLeft, ret, recorded>>
    /\ ProfilerRest

\* threads sharing one new profiler
InitProfilerSpec ==
    /\ ProfilerIdle
    /\ PureIdle
    /\ AdapterIdle
    /\ DataIdle
    /\ ConfigIdle
    /\ GateInit
    /\ ThreadInit([t \in Threads |-> MaxCalls])
    /\ fs = [d \in Dirs |-> NoDir]
    /\ fsChanges = 0
    /\ changedAfterInit = FALSE

NextProfiler ==
    \/ \E t \in Threads : RecordCount(t)
    \/ \E t \in Threads : RecordTime(t)
    \/ \E t \in Threads : SummaryLoadCount(t)
    \/ \E t \in Threads : SummaryLoadParse(t)
    \/ \E t \in Threads : SummaryLoadNormalize(t)
    \/ \E t \in Threads : ResetCount(t)
    \/ \E t \in Threads : ResetParse(t)
    \/ \E t \in Threads : ResetNormalize(t)

SpecProfiler == InitProfilerSpec /\ [][NextProfiler]_vars

\* thread t has a summary that ran from start to end with no other call on
\* the profiler in progress, and no reset before it
QuietSummary(t) ==
    /\ op[t] = "summary"
    /\ pc[t] = "done"
    /\ lcl[t].alone
    /\ ~lcl[t].othersDuring
    /\ lcl[t].history.resets = 0

\* the average of total microseconds over n operations, zero when n is zero
AverageOf(total, n) == IF n = 0 THEN 0 ELSE total \div n

\* C27 as stated: summary reports average_parse_time as the recorded parse
\* microseconds divided by the number of recorded parse operations, and
\* average_normalize_time likewise for normalize operations; both are zero
\* when nothing was recorded.
C27_AveragePerOperationKind ==
    \A t \in Threads :
        QuietSummary(t) =>
            /\ ret[t].average_parse_time =
                  AverageOf(lcl[t].history.parse_us, lcl[t].history.parses)
            /\ ret[t].average_normalize_time =
                  AverageOf(lcl[t].history.normalize_us, lcl[t].history.normalizes)

\* every call on the profiler has returned and reset was never called
AllRecorded ==
    /\ \A t \in Threads : pc[t] \in {"idle", "done"}
    /\ recorded.resets = 0

\* thread t has a summary that began with no other call in progress and
\* during which other threads made no record call, only reset calls
SummaryDuringReset(t) ==
    /\ op[t] = "summary"
    /\ pc[t] = "done"
    /\ lcl[t].alone
    /\ ~lcl[t].recordsDuring

\* C29 as stated: with no reset, once the concurrent record calls have
\* returned the operation count equals the number of record calls and the
\* totals hold every recorded duration, and so does a summary taken then;
\* and the three values a summary loads while a reset runs are all from
\* before the reset or all from after it.
C29_CountsAndSnapshots ==
    /\ AllRecorded =>
          /\ profiler.operation_count = recorded.parses + recorded.normalizes
          /\ profiler.total_parse_time = recorded.parse_us
          /\ profiler.total_normalize_time = recorded.normalize_us
    /\ \A t \in Threads :
          /\ QuietSummary(t) =>
                ret[t].total_operations = lcl[t].history.parses + lcl[t].history.normalizes
          /\ SummaryDuringReset(t) =>
                LET loaded == [operation_count |-> lcl[t].operation_count,
                               total_parse_time |-> lcl[t].total_parse_time_us,
                               total_normalize_time |-> lcl[t].total_normalize_time_us]
                IN  loaded \in {lcl[t].before, NewProfiler}

====
